---------------------------- MODULE Spec2Model ----------------------------
(***************************************************************************)
(* A model of the session aggregation and filtering pipeline of Toronto    *)
(* Free Skates (src/js/views.js, object API) and of the code of            *)
(* src/js/app.js that builds its filter argument.                          *)
(*                                                                         *)
(* Conventions for JavaScript values:                                      *)
(*   - a string is a sequence of one-character strings;                    *)
(*   - an optional number (a date, a distance, a selected date) is a       *)
(*     sequence of length <= 1: << >> is undefined/null, <<n>> is n;       *)
(*   - a date string 'YYYY-MM-DD' is the index of its day: zero-padded     *)
(*     ISO dates compare lexically as their days compare numerically;      *)
(*   - coordinates are kilometres along one meridian, where the Haversine  *)
(*     distance is the absolute difference.                                *)
(***************************************************************************)
EXTENDS Integers, Sequences, FiniteSets

(***************************************************************************)
(* Bounds of the model.                                                    *)
(***************************************************************************)
\* rinks of the upstream catalog
NumRinks == 2
\* days on which a session may fall, and which may be "today"
MaxDay == 2
\* concurrent callers of fetchRinks in SpecRinks
NumCallers == 2
\* entries of a list handed to applyTimeFilters in SpecFilter
MaxLen == 2
\* the largest hour written into a time string given to parseTime
MaxHour == 23
\* the largest number of blanks between the minutes and the meridiem
MaxGap == 1
\* the longest array given to Views.sortSessions
MaxSortLen == 3
\* the user events handled in one run
MaxEvents == 3

RinkIds == 1..NumRinks
Days == 1..MaxDay

(***************************************************************************)
(* Strings.                                                                *)
(***************************************************************************)
Digits == <<"0", "1", "2", "3", "4", "5", "6", "7", "8", "9">>

IsDigit(ch) == \E i \in 1..Len(Digits) : Digits[i] = ch

DigitVal(ch) == (CHOOSE i \in 1..Len(Digits) : Digits[i] = ch) - 1

UpperCase ==
    <<"A", "B", "C", "D", "E", "F", "G", "H", "I", "J", "K", "L", "M",
      "N", "O", "P", "Q", "R", "S", "T", "U", "V", "W", "X", "Y", "Z">>
LowerCase ==
    <<"a", "b", "c", "d", "e", "f", "g", "h", "i", "j", "k", "l", "m",
      "n", "o", "p", "q", "r", "s", "t", "u", "v", "w", "x", "y", "z">>

\* String.prototype.toLowerCase / toUpperCase, one character
toLowerCaseChar(ch) ==
    IF \E i \in 1..Len(UpperCase) : UpperCase[i] = ch
    THEN LowerCase[CHOOSE i \in 1..Len(UpperCase) : UpperCase[i] = ch]
    ELSE ch

toUpperCaseChar(ch) ==
    IF \E i \in 1..Len(LowerCase) : LowerCase[i] = ch
    THEN UpperCase[CHOOSE i \in 1..Len(LowerCase) : LowerCase[i] = ch]
    ELSE ch

toLowerCase(s) == [i \in 1..Len(s) |-> toLowerCaseChar(s[i])]

\* String.prototype.includes
includes(s, sub) ==
    \E i \in 0..(Len(s) - Len(sub)) :
        \A j \in 1..Len(sub) : s[i + j] = sub[j]

(***************************************************************************)
(* API.parseTime  (src/js/views.js 977-991)                                *)
(* A time value is [k, s]: k = "undef" (field missing), "str" (a string,   *)
(* s its characters) or "other" (a truthy value that is not a string).     *)
(***************************************************************************)
UndefTime == [k |-> "undef", s |-> << >>]
StrTime(chars) == [k |-> "str", s |-> chars]
OtherTime == [k |-> "other", s |-> << >>]

\* !timeStr : undefined and the empty string are falsy
TimeFalsy(t) == t.k = "undef" \/ (t.k = "str" /\ t.s = << >>)

\* timeStr.match is not a function: a TypeError
ParseTimeThrows(t) == t.k = "other"

\* (\d{1,2}):(\d{2}) at position i, with n hour digits
HourMinAt(s, i, n) ==
    /\ i + n + 2 <= Len(s)
    /\ \A j \in 0..(n - 1) : IsDigit(s[i + j])
    /\ s[i + n] = ":"
    /\ IsDigit(s[i + n + 1])
    /\ IsDigit(s[i + n + 2])

\* the number of hour digits of the match that starts at i (greedy), 0 if none
HourDigitsAt(s, i) ==
    IF HourMinAt(s, i, 2) THEN 2
    ELSE IF HourMinAt(s, i, 1) THEN 1
    ELSE 0

MatchStarts(s) == {i \in 1..Len(s) : HourDigitsAt(s, i) > 0}

\* the first position after \s* from position p
RECURSIVE SkipSpaces(_, _)
SkipSpaces(s, p) ==
    IF p <= Len(s) /\ s[p] = " " THEN SkipSpaces(s, p + 1) ELSE p

\* match[3] upper-cased: "AM", "PM" or "" when the group did not take part
Meridiem(s, p) ==
    IF p + 1 <= Len(s) /\ toUpperCaseChar(s[p + 1]) = "M"
       /\ toUpperCaseChar(s[p]) \in {"A", "P"}
    THEN (IF toUpperCaseChar(s[p]) = "A" THEN "AM" ELSE "PM")
    ELSE ""

\* the two adjustments without the one for 12 AM: a fault the claims about
\* the parsed hour must detect
To24Hour_NoMidnight(hours, mer) ==
    IF mer = "PM" /\ hours # 12 THEN hours + 12 ELSE hours

\* if (isPM && hours !== 12) hours += 12; if (isAM && hours === 12) hours = 0
To24Hour(hours, mer) ==
    LET isPM == mer = "PM"
        isAM == mer = "AM"
        h1 == IF isPM /\ hours # 12 THEN hours + 12 ELSE hours
    IN  IF isAM /\ h1 = 12 THEN 0 ELSE h1

parseTimeStr(s) ==
    IF MatchStarts(s) = {} THEN 0
    ELSE
        LET i == CHOOSE m \in MatchStarts(s) : \A o \in MatchStarts(s) : m <= o
            n == HourDigitsAt(s, i)
            hours == IF n = 2 THEN DigitVal(s[i]) * 10 + DigitVal(s[i + 1])
                     ELSE DigitVal(s[i])
            mer == Meridiem(s, SkipSpaces(s, i + n + 3))
        IN  To24Hour(hours, mer)

\* defined where ParseTimeThrows(t) is false
parseTime(t) == IF TimeFalsy(t) THEN 0 ELSE parseTimeStr(t.s)


(***************************************************************************)
(* The rink catalog endpoint and API.fetchRinks  (src/js/views.js 759-789) *)
(***************************************************************************)
RinkType(r) == IF r % 2 = 1 THEN "Indoor" ELSE "Outdoor"

\* rink r lies 4r km north of the origin
RinkLat(r) == 4 * r

\* one row of the catalog response: features[].attributes
Feature(r) == [locationid |-> r, location_type |-> RinkType(r), y |-> RinkLat(r)]

FullCatalog == [r \in RinkIds |-> Feature(r)]
ShortCatalog == SubSeq(FullCatalog, 1, NumRinks - 1)

\* What the catalog endpoint may answer: a network error, a body that is not
\* JSON, JSON without a features array, or a features array.
CatalogResponses ==
    {[kind |-> k, features |-> << >>] : k \in {"neterr", "badjson", "illshaped"}}
    \cup {[kind |-> "ok", features |-> f] : f \in {FullCatalog, ShortCatalog, << >>}}

\* data.features.map(feature => ({id, name, address, type, lat, lng})): a new
\* rink object carries no distance
MapFeature(f) ==
    [id |-> f.locationid, type |-> f.location_type, lat |-> f.y, distance |-> << >>]

\* the try block of fetchRinks succeeds
CatalogOk(resp) == resp.kind = "ok"

MapFeatures(resp) == [i \in 1..Len(resp.features) |-> MapFeature(resp.features[i])]

\* the catalog fields of a rink list, without the distance the aggregator attaches
CatalogFields(rinks) ==
    [i \in 1..Len(rinks) |-> [id |-> rinks[i].id, type |-> rinks[i].type, lat |-> rinks[i].lat]]

(***************************************************************************)
(* API.calculateDistance  (src/js/views.js 996-1006), on one meridian:     *)
(* with lon1 = lon2 the Haversine formula gives R * |lat2 - lat1| (rad).   *)
(***************************************************************************)
calculateDistance(lat1, lat2) == IF lat2 >= lat1 THEN lat2 - lat1 ELSE lat1 - lat2

(***************************************************************************)
(* The schedule endpoint and API.fetchSchedule  (src/js/views.js 795-855)  *)
(***************************************************************************)
LeisureSkate == <<"L", "e", "i", "s", "u", "r", "e", " ", "S", "k", "a", "t", "e">>
LeisureIce == <<"L", "E", "I", "S", "U", "R", "E", " ", "I", "C", "E">>
ShinnyHockey == <<"S", "h", "i", "n", "n", "y">>
leisure_skate == <<"l", "e", "i", "s", "u", "r", "e", " ", "s", "k", "a", "t", "e">>
leisure_ice == <<"l", "e", "i", "s", "u", "r", "e", " ", "i", "c", "e">>

T_9am == StrTime(<<"9", ":", "0", "0", " ", "A", "M">>)
T_130pm == StrTime(<<"1", ":", "3", "0", " ", "P", "M">>)
T_7pm == StrTime(<<"0", "7", ":", "0", "0", "p", "m">>)

\* a row of an item's r array: c activity, d date, t time
Row(c, d, t) == [c |-> c, d |-> d, t |-> t]

\* an element of the payload array: nul (null), hasR (item.r is an array)
Item(rows) == [nul |-> FALSE, hasR |-> TRUE, r |-> rows]
ItemNoR == [nul |-> FALSE, hasR |-> FALSE, r |-> << >>]
ItemNull == [nul |-> TRUE, hasR |-> FALSE, r |-> << >>]

\* two leisure rows out of order and a hockey row
BodyTwo ==
    << Item(<< Row(LeisureSkate, <<MaxDay>>, T_7pm),
               Row(ShinnyHockey, <<1>>, T_9am),
               Row(LeisureIce, <<1>>, T_130pm) >>) >>
\* an item without rows, then one leisure row
BodyOne == << ItemNoR, Item(<< Row(LeisureSkate, <<1>>, T_9am) >>) >>
\* a retained row without a date
BodyNoDate == << Item(<< Row(LeisureSkate, << >>, T_9am) >>) >>
\* a retained row whose time is not a string
BodyBadTime == << Item(<< Row(LeisureSkate, <<1>>, OtherTime) >>) >>
\* an array holding null
BodyNull == << ItemNull >>

WellFormedBodies == {BodyTwo, BodyOne}
MalformedBodies == {BodyNoDate, BodyBadTime}

\* What a schedule endpoint may answer: a network error, a non-OK status, text
\* that is not JSON, JSON that is not an array, or an array.
ScheduleResponses ==
    {[kind |-> k, items |-> << >>] : k \in {"neterr", "notok", "badtext", "notarray"}}
    \cup {[kind |-> "array", items |-> b] : b \in WellFormedBodies \cup MalformedBodies \cup {BodyNull}}

\* the activity test without the lower-casing: a fault the retention claims
\* must detect
IsLeisure_CaseSensitive(row) ==
    includes(row.c, leisure_skate) \/ includes(row.c, leisure_ice)

\* the activity test of fetchSchedule: (session.c || '').toLowerCase(), a
\* missing label being the empty string
IsLeisure(row) ==
    LET activity == toLowerCase(row.c)
    IN  includes(activity, leisure_skate) \/ includes(activity, leisure_ice)

\* sessions.push({activity, date, time, age, facility})
MakeSession(row) == [activity |-> row.c, date |-> row.d, time |-> row.t]

RECURSIVE RetainRows(_)
RetainRows(rows) ==
    IF rows = << >> THEN << >>
    ELSE (IF IsLeisure(Head(rows)) THEN << MakeSession(Head(rows)) >> ELSE << >>)
         \o RetainRows(Tail(rows))

RECURSIVE ExtractSessions(_)
ExtractSessions(items) ==
    IF items = << >> THEN << >>
    ELSE (IF Head(items).hasR THEN RetainRows(Head(items).r) ELSE << >>)
         \o ExtractSessions(Tail(items))

\* the value fetchSchedule resolves to; it never rejects
fetchSchedule(resp) ==
    IF resp.kind \in {"neterr", "notok", "badtext"} THEN << >>
    ELSE IF resp.kind = "notarray" THEN << >>
    ELSE IF \E i \in 1..Len(resp.items) : resp.items[i].nul THEN << >>
    ELSE ExtractSessions(resp.items)

\* the try block raises: fetch rejects, JSON.parse throws on the decoded
\* text, or item.r is read of a null item
ScheduleBodyThrows(resp) ==
    \/ resp.kind \in {"neterr", "badtext"}
    \/ /\ resp.kind = "array"
       /\ \E i \in 1..Len(resp.items) : resp.items[i].nul

\* fetchSchedule without its catch block: a fault the claims about its
\* failures must detect
fetchScheduleSettles_NoCatch(resp) ==
    IF ScheduleBodyThrows(resp) THEN [st |-> "rejected", value |-> << >>]
    ELSE [st |-> "resolved", value |-> fetchSchedule(resp)]

\* how the promise of fetchSchedule settles: the whole body is inside the
\* try, and the catch block returns []
fetchScheduleSettles(resp) == [st |-> "resolved", value |-> fetchSchedule(resp)]

(***************************************************************************)
(* FilterSettings.getFilterDate / getFilters  (src/js/app.js 931-962)      *)
(* settings: [maxDistance, anyDistance, dateFilter, selectedDate,          *)
(*            timeOfDay, rinkType, timeFilter]                             *)
(***************************************************************************)
\* formatDate(new Date()) is the day index itself
getFilterDate(settings, today) ==
    IF settings.dateFilter = "any" THEN << >>
    ELSE IF settings.dateFilter = "today" THEN <<today>>
    ELSE IF settings.dateFilter = "tomorrow" THEN <<today + 1>>
    ELSE IF settings.dateFilter = "pick" /\ settings.selectedDate # << >>
         THEN settings.selectedDate
    ELSE << >>

getFilters(settings, today) ==
    [maxDistance |-> settings.maxDistance,
     anyDistance |-> settings.anyDistance,
     dateFilter |-> settings.dateFilter,
     filterDate |-> getFilterDate(settings, today),
     timeOfDay |-> settings.timeOfDay,
     rinkType |-> settings.rinkType,
     timeFilter |-> settings.timeFilter]

(***************************************************************************)
(* API.applyTimeFilters  (src/js/views.js 948-972)                         *)
(* An entry is [rink, session]; today is the day index of todayStr.        *)
(***************************************************************************)
\* filters.timeOfDay && filters.timeOfDay !== 'all'
TimeOfDayActive(filters) == filters.timeOfDay # "" /\ filters.timeOfDay # "all"

\* the time-of-day test with the upper ends of the buckets included: a fault
\* the bucket claims must detect
TimeOfDayKeeps_UpperEndIncluded(item, filters) ==
    LET hour == parseTime(item.session.time)
    IN  /\ ~(filters.timeOfDay = "morning" /\ (hour < 0 \/ hour > 12))
        /\ ~(filters.timeOfDay = "afternoon" /\ (hour < 12 \/ hour > 17))
        /\ ~(filters.timeOfDay = "evening" /\ (hour < 17 \/ hour > 24))

\* the time-of-day test of one entry, where parseTime does not throw
TimeOfDayKeeps(item, filters) ==
    LET hour == parseTime(item.session.time)
    IN  /\ ~(filters.timeOfDay = "morning" /\ (hour < 0 \/ hour >= 12))
        /\ ~(filters.timeOfDay = "afternoon" /\ (hour < 12 \/ hour >= 17))
        /\ ~(filters.timeOfDay = "evening" /\ (hour < 17 \/ hour >= 24))

\* session.date < todayStr and session.date >= todayStr: both are false for
\* a missing date
DateBefore(date, today) == date # << >> /\ date[1] < today
DateNotBefore(date, today) == date # << >> /\ date[1] >= today

TimeFilterKeeps(item, filters, today) ==
    IF filters.timeFilter # "" /\ filters.timeFilter # "all"
    THEN /\ ~(filters.timeFilter = "upcoming" /\ DateBefore(item.session.date, today))
         /\ ~(filters.timeFilter = "past" /\ DateNotBefore(item.session.date, today))
    ELSE TRUE

\* the callback of sessions.filter
FilterKeeps(item, filters, today) ==
    /\ (TimeOfDayActive(filters) => TimeOfDayKeeps(item, filters))
    /\ TimeFilterKeeps(item, filters, today)

\* parseTime raises a TypeError inside the callback
applyTimeFiltersThrows(sessions, filters) ==
    /\ TimeOfDayActive(filters)
    /\ \E i \in 1..Len(sessions) : ParseTimeThrows(sessions[i].session.time)

RECURSIVE applyTimeFilters(_, _, _)
applyTimeFilters(sessions, filters, today) ==
    IF sessions = << >> THEN << >>
    ELSE (IF FilterKeeps(Head(sessions), filters, today)
          THEN << Head(sessions) >> ELSE << >>)
         \o applyTimeFilters(Tail(sessions), filters, today)

(***************************************************************************)
(* The comparator and the sort of fetchAllSessions                         *)
(* (src/js/views.js 935-940)                                               *)
(***************************************************************************)
\* a.session.date.localeCompare(b.session.date): an undefined argument is
\* compared as the string "undefined", which follows every ISO date
dateCompare(a, b) ==
    IF b.session.date = << >> THEN -1
    ELSE IF a.session.date[1] < b.session.date[1] THEN -1
    ELSE IF a.session.date[1] > b.session.date[1] THEN 1
    ELSE 0

\* the comparator raises a TypeError: a has no date to call localeCompare
\* on, or the dates are equal and parseTime is given a non-string
CompareThrows(a, b) ==
    \/ a.session.date = << >>
    \/ /\ dateCompare(a, b) = 0
       /\ (ParseTimeThrows(a.session.time) \/ ParseTimeThrows(b.session.time))

\* the comparator without its tie-break on the parsed hour: a fault the
\* ordering claims must detect
compare_DateOnly(a, b) == dateCompare(a, b)

\* the comparator's result, where it does not throw
compare(a, b) ==
    IF dateCompare(a, b) # 0 THEN dateCompare(a, b)
    ELSE parseTime(a.session.time) - parseTime(b.session.time)

\* Array.prototype.sort is stable: insert x after the last element it does
\* not precede
RECURSIVE InsertSorted(_, _)
InsertSorted(sorted, x) ==
    IF sorted = << >> THEN << x >>
    ELSE LET last == sorted[Len(sorted)]
         IN  IF compare(last, x) <= 0 THEN Append(sorted, x)
             ELSE Append(InsertSorted(SubSeq(sorted, 1, Len(sorted) - 1), x), last)

RECURSIVE SortFrom(_, _)
SortFrom(sorted, rest) ==
    IF rest = << >> THEN sorted
    ELSE SortFrom(InsertSorted(sorted, Head(rest)), Tail(rest))

\* the entries without a date moved behind the others, as a comparator that
\* never has one of them as its first argument orders them
DatedFirst(sessions) ==
    SelectSeq(sessions, LAMBDA e : e.session.date # << >>)
    \o SelectSeq(sessions, LAMBDA e : e.session.date = << >>)

sortSessionsByTime(sessions) == SortFrom(<< >>, DatedFirst(sessions))

\* Every sort of these entries calls the comparator on a pair it throws on
\* both ways round: two entries in one slot of the order must be compared.
SortMustThrow(sessions) ==
    \E i, j \in 1..Len(sessions) :
        /\ i # j
        /\ CompareThrows(sessions[i], sessions[j])
        /\ CompareThrows(sessions[j], sessions[i])

\* Whether the comparator is called with the undated entry first depends on
\* the engine's sort and on the order of the array.
SortMayThrow(sessions) ==
    /\ Len(sessions) >= 2
    /\ \E i \in 1..Len(sessions) : sessions[i].session.date = << >>

(***************************************************************************)
(* Views.sortSessions  (src/js/views.js 347-371)                           *)
(* The entries carry a rink name here: rink.name is one lower-case letter. *)
(***************************************************************************)
\* a.rink.name.localeCompare(b.rink.name) for one-letter names
nameCompare(a, b) ==
    LET rank(ch) == CHOOSE i \in 1..Len(LowerCase) : LowerCase[i] = ch
        ra == rank(a.rink.name[1])
        rb == rank(b.rink.name[1])
    IN  IF ra < rb THEN -1 ELSE IF ra > rb THEN 1 ELSE 0

\* the distance comparator with || in place of ??, which takes a distance
\* of 0 for a missing one: a fault the distance-order claims must detect
distanceCompare_ZeroAsMissing(a, b) ==
    LET missingA == a.rink.distance = << >> \/ a.rink.distance = <<0>>
        missingB == b.rink.distance = << >> \/ b.rink.distance = <<0>>
    IN  IF missingA /\ missingB THEN 0
        ELSE IF missingA THEN 1
        ELSE IF missingB THEN -1
        ELSE a.rink.distance[1] - b.rink.distance[1]

\* (a.rink.distance ?? Infinity) - (b.rink.distance ?? Infinity), by sign:
\* Infinity - Infinity is NaN, which sort takes for +0
distanceCompare(a, b) ==
    IF a.rink.distance = << >> /\ b.rink.distance = << >> THEN 0
    ELSE IF a.rink.distance = << >> THEN 1
    ELSE IF b.rink.distance = << >> THEN -1
    ELSE a.rink.distance[1] - b.rink.distance[1]

\* switch (sortBy): 'name', 'distance', and 'time' or anything else
sortCompare(sortBy, a, b) ==
    IF sortBy = "name" THEN nameCompare(a, b)
    ELSE IF sortBy = "distance" THEN distanceCompare(a, b)
    ELSE compare(a, b)

RECURSIVE InsertSortedBy(_, _, _)
InsertSortedBy(sortBy, sorted, x) ==
    IF sorted = << >> THEN << x >>
    ELSE LET last == sorted[Len(sorted)]
         IN  IF sortCompare(sortBy, last, x) <= 0 THEN Append(sorted, x)
             ELSE Append(InsertSortedBy(sortBy, SubSeq(sorted, 1, Len(sorted) - 1), x),
                         last)

RECURSIVE SortFromBy(_, _, _)
SortFromBy(sortBy, sorted, rest) ==
    IF rest = << >> THEN sorted
    ELSE SortFromBy(sortBy, InsertSortedBy(sortBy, sorted, Head(rest)), Tail(rest))

\* the array sortSessions returns, for entries with a name, a date and a
\* string time
sortSessions(sessions, sortBy) == SortFromBy(sortBy, << >>, sessions)

\* sorting the caller's array itself instead of a copy: a fault the claims
\* about the input of sortSessions must detect
ArrayAfterSort_InPlace(sessions, sortBy) == sortSessions(sessions, sortBy)

\* the caller's array after the call: const sorted = [...sessions] makes
\* the sort work on a copy
ArrayAfterSort(sessions, sortBy) == sessions

(***************************************************************************)
(* API.fetchAllSessions  (src/js/views.js 860-943): the pure steps         *)
(***************************************************************************)
\* filters.maxDistance || 10
EffectiveMaxDistance(filters) ==
    IF filters.maxDistance # 0 THEN filters.maxDistance ELSE 10

\* the test of the first branch without its anyDistance part: a fault the
\* any-distance claims must detect
DistanceFilterBranch_AnyDistanceUnread(userLocation, filters) ==
    userLocation # << >>

\* userLocation && !filters.anyDistance
DistanceFilterBranch(userLocation, filters) ==
    userLocation # << >> /\ ~filters.anyDistance

\* else if (userLocation)
DistanceAttachBranch(userLocation, filters) ==
    userLocation # << >> /\ filters.anyDistance

WithDistance(rink, userLocation) ==
    [rink EXCEPT !.distance = << calculateDistance(userLocation[1], rink.lat) >>]

AttachDistances(rinks, userLocation) ==
    [i \in 1..Len(rinks) |-> WithDistance(rinks[i], userLocation)]

\* the callback of rinks.filter: distance <= maxDistance
WithinMaxDistance(rink, filters) == rink.distance[1] <= EffectiveMaxDistance(filters)

\* The rink objects of the cache after the call's distance step: the filter
\* callback assigns rink.distance on the cached objects themselves, the map
\* of the other branch works on copies.
RinksAfterDistanceStep(rinks, userLocation, filters) ==
    IF DistanceFilterBranch(userLocation, filters)
    THEN AttachDistances(rinks, userLocation)
    ELSE rinks

\* FilterByDistance with the exclusion left out (the distance is attached,
\* no rink is dropped): a fault the distance claims must detect
FilterByDistance_NoExclusion(rinks, userLocation, filters) ==
    IF userLocation # << >> THEN AttachDistances(rinks, userLocation) ELSE rinks

FilterByDistance(rinks, userLocation, filters) ==
    IF DistanceFilterBranch(userLocation, filters)
    THEN SelectSeq(AttachDistances(rinks, userLocation),
                   LAMBDA rink : WithinMaxDistance(rink, filters))
    ELSE IF DistanceAttachBranch(userLocation, filters)
    THEN AttachDistances(rinks, userLocation)
    ELSE rinks

\* the type step left out: a fault the rink-type claims must detect
FilterByType_Unfiltered(rinks, filters) == rinks

\* if (filters.rinkType) filteredRinks = filteredRinks.filter(...)
FilterByType(rinks, filters) ==
    IF filters.rinkType # ""
    THEN SelectSeq(rinks, LAMBDA rink : rink.type = filters.rinkType)
    ELSE rinks

FilteredRinks(rinks, userLocation, filters) ==
    FilterByType(FilterByDistance(rinks, userLocation, filters), filters)

\* schedule.map(session => ({rink: {...}, session}))
MakeEntries(rink, schedule) ==
    [i \in 1..Len(schedule) |-> [rink |-> rink, session |-> schedule[i]]]

\* A slot of the fan-out: st is "none" (no fetch was issued for the rink),
\* "pending", "fulfilled" (value: the entries) or "rejected" (the timeout won).
NoFetch == [st |-> "none", value |-> << >>]
PendingFetch == [st |-> "pending", value |-> << >>]
RejectedFetch == [st |-> "rejected", value |-> << >>]
FulfilledFetch(entries) == [st |-> "fulfilled", value |-> entries]

\* filteredRinks.map(async rink => ...): one fetch per filtered rink
LaunchFetches(rinks) ==
    [r \in RinkIds |->
        IF \E i \in 1..Len(rinks) : rinks[i].id = r THEN PendingFetch ELSE NoFetch]

\* for (const result of results) if (result.status === 'fulfilled' ...) push
RECURSIVE Flatten(_, _)
Flatten(rinks, slots) ==
    IF rinks = << >> THEN << >>
    ELSE (IF slots[Head(rinks).id].st = "fulfilled"
          THEN slots[Head(rinks).id].value ELSE << >>)
         \o Flatten(Tail(rinks), slots)

\* a result whose rink list holds only the rinks that have a returned
\* session: a fault the claims about the returned rink list must detect
Returned_RinksWithSessions(sessions, rinks) ==
    [status |-> "returned", sessions |-> sessions,
     rinks |-> SelectSeq(rinks, LAMBDA rink :
                    \E i \in 1..Len(sessions) : sessions[i].rink.id = rink.id)]

\* return { sessions, rinks: filteredRinks }
Returned(sessions, rinks) == [status |-> "returned", sessions |-> sessions, rinks |-> rinks]
Threw == [status |-> "threw", sessions |-> << >>, rinks |-> << >>]
NoOutcome == [status |-> "none", sessions |-> << >>, rinks |-> << >>]

\* lines 932-942: filter, sort, return; or a TypeError on its way to the caller
TailOutcomes(flat, rinks, filters, today) ==
    IF applyTimeFiltersThrows(flat, filters) THEN {Threw}
    ELSE LET kept == applyTimeFilters(flat, filters, today)
         IN  IF SortMustThrow(kept) THEN {Threw}
             ELSE IF SortMayThrow(kept)
                  THEN {Threw, Returned(sortSessionsByTime(kept), rinks)}
             ELSE {Returned(sortSessionsByTime(kept), rinks)}

(***************************************************************************)
(* FilterSettings: init, readFromURL, updateURL, save                      *)
(* (src/js/app.js 598-753, 913-916).                                       *)
(* A query string is a record of its parameters, each << >> (absent) or    *)
(* <<value>>; dist is a string of characters, rinks the list of the        *)
(* comma-separated pieces, pickDate a date.  The stored item is absent, a  *)
(* text that is not JSON, or an object whose fields are << >> (absent) or  *)
(* <<value>>.                                                              *)
(***************************************************************************)
DefaultSettings ==
    [maxDistance |-> 10, anyDistance |-> TRUE, dateFilter |-> "any",
     selectedDate |-> << >>, timeOfDay |-> "all", rinkType |-> "",
     timeFilter |-> "upcoming"]

EmptyURL ==
    [dist |-> << >>, anyDist |-> << >>, date |-> << >>, pickDate |-> << >>,
     time |-> << >>, type |-> << >>, show |-> << >>, rinks |-> << >>]

\* parseInt(s, 10): the number written by the leading digits, << >> for NaN
RECURSIVE DigitsValue(_, _)
DigitsValue(s, acc) ==
    IF s = << >> \/ ~IsDigit(Head(s)) THEN acc
    ELSE DigitsValue(Tail(s), acc * 10 + DigitVal(Head(s)))

parseInt(s) ==
    IF s = << >> \/ ~IsDigit(Head(s)) THEN << >> ELSE << DigitsValue(s, 0) >>

\* String(n) for n >= 0
RECURSIVE NumberToString(_)
NumberToString(n) ==
    IF n < 10 THEN << Digits[n + 1] >>
    ELSE Append(NumberToString(n \div 10), Digits[(n % 10) + 1])

\* params.has(...) || ... : some filter parameter is in the query string
HasParams(u) ==
    \/ u.dist # << >> \/ u.anyDist # << >> \/ u.date # << >> \/ u.pickDate # << >>
    \/ u.time # << >> \/ u.type # << >> \/ u.show # << >> \/ u.rinks # << >>

\* readFromURL without the range test of dist: a fault the claims about
\* the settings read from the URL must detect
DistFromURL_Unchecked(u) ==
    IF u.dist # << >> /\ parseInt(u.dist[1]) # << >> THEN parseInt(u.dist[1]) ELSE << >>

\* settings.maxDistance of readFromURL: << >> when it is not assigned
DistFromURL(u) ==
    IF u.dist # << >> /\ parseInt(u.dist[1]) # << >>
       /\ parseInt(u.dist[1])[1] >= 1 /\ parseInt(u.dist[1])[1] <= 50
    THEN parseInt(u.dist[1]) ELSE << >>

\* a parameter that is assigned only when its value is in the list
EnumFromURL(param, allowed) ==
    IF param # << >> /\ param[1] \in allowed THEN param ELSE << >>

\* { ...this.defaults, ...urlSettings }: a setting readFromURL assigned, or
\* the default
SettingsFromURL(u) ==
    LET pick(assigned, default) == IF assigned # << >> THEN assigned[1] ELSE default
    IN  [maxDistance |-> pick(DistFromURL(u), DefaultSettings.maxDistance),
         anyDistance |-> IF u.anyDist # << >> THEN u.anyDist[1] = "1"
                         ELSE DefaultSettings.anyDistance,
         dateFilter |-> pick(EnumFromURL(u.date, {"any", "today", "tomorrow", "pick"}),
                             DefaultSettings.dateFilter),
         selectedDate |-> IF u.pickDate # << >> THEN u.pickDate
                          ELSE DefaultSettings.selectedDate,
         timeOfDay |-> pick(EnumFromURL(u.time, {"all", "morning", "afternoon", "evening"}),
                            DefaultSettings.timeOfDay),
         rinkType |-> pick(EnumFromURL(u.type, {"", "Indoor", "Outdoor"}),
                           DefaultSettings.rinkType),
         timeFilter |-> pick(EnumFromURL(u.show, {"upcoming", "all", "past"}),
                             DefaultSettings.timeFilter)]

NoItem == [kind |-> "none"]
GarbageItem == [kind |-> "garbage"]

\* JSON.stringify(this.settings): every field is written
StoredSettings(settings) ==
    [kind |-> "json",
     maxDistance |-> << settings.maxDistance >>,
     anyDistance |-> << settings.anyDistance >>,
     dateFilter |-> << settings.dateFilter >>,
     selectedDate |-> << settings.selectedDate >>,
     timeOfDay |-> << settings.timeOfDay >>,
     rinkType |-> << settings.rinkType >>,
     timeFilter |-> << settings.timeFilter >>]

\* { ...this.defaults, ...JSON.parse(stored) }: a field of the stored object,
\* or the default; the defaults when there is no item or it does not parse
SettingsFromStorage(item) ==
    IF item.kind # "json" THEN DefaultSettings
    ELSE LET pick(stored, default) == IF stored # << >> THEN stored[1] ELSE default
         IN  [maxDistance |-> pick(item.maxDistance, DefaultSettings.maxDistance),
              anyDistance |-> pick(item.anyDistance, DefaultSettings.anyDistance),
              dateFilter |-> pick(item.dateFilter, DefaultSettings.dateFilter),
              selectedDate |-> pick(item.selectedDate, DefaultSettings.selectedDate),
              timeOfDay |-> pick(item.timeOfDay, DefaultSettings.timeOfDay),
              rinkType |-> pick(item.rinkType, DefaultSettings.rinkType),
              timeFilter |-> pick(item.timeFilter, DefaultSettings.timeFilter)]

\* the settings after FilterSettings.init
InitSettings(u, item) ==
    IF HasParams(u) THEN SettingsFromURL(u) ELSE SettingsFromStorage(item)

\* the rinks parameter updateURL writes: the selected ids when some but not
\* all rinks are selected (only if window.RinkSelector exists)
RinksParam(hasSelector, selectedIds, allIds) ==
    IF hasSelector /\ Len(selectedIds) > 0 /\ Len(selectedIds) < Len(allIds)
    THEN << [i \in 1..Len(selectedIds) |-> NumberToString(selectedIds[i])] >>
    ELSE << >>

\* the query string updateURL writes: the settings that are not the default
updateURL(settings, hasSelector, selectedIds, allIds) ==
    [dist |-> IF settings.maxDistance # DefaultSettings.maxDistance
              THEN << NumberToString(settings.maxDistance) >> ELSE << >>,
     anyDist |-> IF settings.anyDistance # DefaultSettings.anyDistance
                 THEN << IF settings.anyDistance THEN "1" ELSE "0" >> ELSE << >>,
     date |-> IF settings.dateFilter # DefaultSettings.dateFilter
              THEN << settings.dateFilter >> ELSE << >>,
     pickDate |-> settings.selectedDate,
     time |-> IF settings.timeOfDay # DefaultSettings.timeOfDay
              THEN << settings.timeOfDay >> ELSE << >>,
     type |-> IF settings.rinkType # DefaultSettings.rinkType
              THEN << settings.rinkType >> ELSE << >>,
     show |-> IF settings.timeFilter # DefaultSettings.timeFilter
              THEN << settings.timeFilter >> ELSE << >>,
     rinks |-> RinksParam(hasSelector, selectedIds, allIds)]

(***************************************************************************)
(* State.                                                                  *)
(***************************************************************************)
VARIABLES
    today,          \* the day index of the local date
    rinksCache,     \* API.rinksCache: [set, rinks]; set = FALSE is null
    pc,             \* where the fetchAllSessions call stands
    userLocation,   \* its first argument: << >> (null) or <<lat>>
    filters,        \* its second argument
    catalog,        \* how its fetchRinks ended: "none", "hit", "ok", "failed"
    filteredRinks,  \* its filteredRinks
    sched,          \* its fan-out: one slot per rink
    outcome,        \* what it gave its caller
    rpc,            \* SpecRinks: where each direct fetchRinks call stands
    rret,           \* SpecRinks: the list each call returned
    rlate,          \* SpecRinks: the call began after a call had succeeded
    firstRinks,     \* SpecRinks: << >>, or the list of the first success
    rwrites,        \* SpecRinks: how often rinksCache has been assigned
    fin,            \* SpecFilter: the list given to applyTimeFilters
    ffilters,       \* SpecFilter: its filters argument
    fout,           \* SpecFilter: the list it returned
    fpc,            \* SpecFilter: "ready", "done", "again" or "threw"
    fin0,           \* SpecFilter: the list as it was before the first call
    fout2,          \* SpecFilter: the list the second call returned
    pin,            \* SpecParse: how the argument of parseTime was written
    pout,           \* SpecParse: the hour parseTime returned
    ppc,            \* SpecParse: "ready", "done" or "threw"
    dresp,          \* SpecDecode: the answer of the schedule endpoint
    dout,           \* SpecDecode: how fetchSchedule settled
    dpc,            \* SpecDecode: "ready" or "done"
    sin,            \* SpecSort: the array given to Views.sortSessions
    sin0,           \* SpecSort: the array as it was before the first call
    sortBy,         \* SpecSort: its sortBy argument
    sout,           \* SpecSort: the array it returned
    sout2,          \* SpecSort: the array the second call returned
    spc,            \* SpecSort: "ready", "done" or "again"
    window,         \* which of window.App, window.RinkSelector exist
    page,           \* "unloaded" until the page has initialised, then "ready"
    settings,       \* FilterSettings.settings
    localStorage,   \* the items skateFinderFilters, skateFinderSelectedRinks
    url,            \* the query string of window.location
    App,            \* App: [isLoading, sessions, rinks]
    dom,            \* style.display of #emptyState and #loadingIndicator
    lmUserLocation, \* LocationManager.userLocation: << >> (null) or <<lat>>
    inflight,       \* the arguments of the fetchAllSessions calls not settled
    loaded,         \* how the last load ended and the arguments it was made with
    RinkSelector,   \* RinkSelector: [allRinks, selectedRinkIds, urlHasRinks]
    reloaded,       \* << >>, or what was set when the page was last reloaded
    events,         \* how many user events have been handled
    savedSelection  \* << >>, or the selection the user saved last

vars == << today, rinksCache, pc, userLocation, filters, catalog, filteredRinks,
           sched, outcome, rpc, rret, rlate, firstRinks, rwrites,
           fin, ffilters, fout, fpc,
           fin0, fout2, pin, pout, ppc, dresp, dout, dpc,
           sin, sin0, sortBy, sout, sout2, spc,
           window, page, settings, localStorage, url, App, dom, lmUserLocation,
           inflight, loaded, RinkSelector, reloaded, events, savedSelection >>

aggVars == << pc, userLocation, filters, catalog, filteredRinks, sched, outcome >>
rinksVars == << rpc, rret, rlate, firstRinks, rwrites >>
filterVars == << fin, ffilters, fout, fpc, fin0, fout2 >>
parseVars == << pin, pout, ppc >>
decodeVars == << dresp, dout, dpc >>
sortVars == << sin, sin0, sortBy, sout, sout2, spc >>
appVars == << App, dom, lmUserLocation, inflight, loaded >>
storeVars == << settings, localStorage, url, RinkSelector, reloaded, savedSelection >>
uiVars == << window, page, events, appVars, storeVars >>

Callers == 1..NumCallers

\* reference locations: none, or the origin of the meridian
Locations == {<< >>, <<0>>}

\* the settings FilterSettings may hold when App.loadSessions reads them
SettingsSet ==
    [maxDistance : {0, 5},
     anyDistance : BOOLEAN,
     dateFilter : {"any", "today", "tomorrow", "pick"},
     selectedDate : {<< >>, <<1>>},
     timeOfDay : {"all", "morning", "afternoon", "evening"},
     rinkType : {"", "Indoor", "Outdoor"},
     timeFilter : {"upcoming", "all", "past"}]

NullCache == [set |-> FALSE, rinks |-> << >>]
Cached(rinks) == [set |-> TRUE, rinks |-> rinks]

NoSlots == [r \in RinkIds |-> NoFetch]

AggInit ==
    /\ pc = "idle"
    /\ userLocation = << >>
    /\ filters = getFilters(DefaultSettings, 1)
    /\ catalog = "none"
    /\ filteredRinks = << >>
    /\ sched = NoSlots
    /\ outcome = NoOutcome

RinksInit ==
    /\ rpc = [c \in Callers |-> "idle"]
    /\ rret = [c \in Callers |-> << >>]
    /\ rlate = [c \in Callers |-> FALSE]
    /\ firstRinks = << >>
    /\ rwrites = 0

FilterIdle ==
    /\ fin = << >>
    /\ ffilters = getFilters(DefaultSettings, 1)
    /\ fout = << >>
    /\ fpc = "idle"
    /\ fin0 = << >>
    /\ fout2 = << >>

\* how the argument of parseTime was written: a time "H:MM" with or without
\* a leading zero, blanks and a meridiem; some other text; or no value
MissingTime ==
    [kind |-> "missing", h |-> 0, pad |-> FALSE, mm |-> <<"0", "0">>, gap |-> 0,
     mer |-> "", text |-> << >>]

ParseIdle ==
    /\ pin = MissingTime
    /\ pout = 0
    /\ ppc = "idle"

DecodeIdle ==
    /\ dresp = [kind |-> "neterr", items |-> << >>]
    /\ dout = [st |-> "none", value |-> << >>]
    /\ dpc = "idle"

SortIdle ==
    /\ sin = << >>
    /\ sin0 = << >>
    /\ sortBy = "time"
    /\ sout = << >>
    /\ sout2 = << >>
    /\ spc = "idle"

\* App as it is written: not loading, no sessions, no rinks
AppConstructed == [isLoading |-> FALSE, sessions |-> << >>, rinks |-> << >>]

\* RinkSelector as it is written; selectedRinkIds is the Set in insertion order
SelectorConstructed ==
    [allRinks |-> << >>, selectedRinkIds |-> << >>, urlHasRinks |-> FALSE]

NoStorage == [skateFinderFilters |-> NoItem, skateFinderSelectedRinks |-> NoItem]

NoLoad == [last |-> "none", args |-> << >>]

\* the page before any script has run; settings is {} there and is not read
\* before FilterSettings.init assigns it
UiIdle ==
    /\ window = [App |-> FALSE, RinkSelector |-> FALSE]
    /\ page = "unloaded"
    /\ events = 0
    /\ settings = DefaultSettings
    /\ localStorage = NoStorage
    /\ url = EmptyURL
    /\ App = AppConstructed
    /\ dom = [emptyState |-> "none", loadingIndicator |-> "none"]
    /\ lmUserLocation = << >>
    /\ inflight = << >>
    /\ loaded = NoLoad
    /\ RinkSelector = SelectorConstructed
    /\ reloaded = << >>
    /\ savedSelection = << >>

Init ==
    /\ today \in Days
    /\ rinksCache = NullCache
    /\ AggInit
    /\ RinksInit
    /\ UiIdle
    /\ FilterIdle
    /\ ParseIdle
    /\ DecodeIdle
    /\ SortIdle

(***************************************************************************)
(* fetchAllSessions as a process.                                          *)
(***************************************************************************)
\* fetchRinks falling back to a built-in list when the fetch fails, instead
\* of the empty list: a fault the catalog-failure claims must detect
fetchRinksValue_Fallback(resp) ==
    IF CatalogOk(resp) THEN MapFeatures(resp)
    ELSE MapFeatures([kind |-> "ok", features |-> FullCatalog])

\* the value fetchRinks returns for a catalog response: the mapped features,
\* or [] from the catch block
fetchRinksValue(resp) == IF CatalogOk(resp) THEN MapFeatures(resp) ELSE << >>

\* a join that resolves with the first settled promise, as Promise.race
\* would: a fault the join claims must detect
AllSettled_Any(slots) == \E r \in RinkIds : slots[r].st \in {"fulfilled", "rejected"}

\* Promise.allSettled: every racing promise has settled
AllSettled(slots) == \A r \in RinkIds : slots[r].st # "pending"

\* Lines 863-922, from the value of fetchRinks to the await of allSettled:
\* the empty catalog returns at once; otherwise the distance step (which
\* writes into the cached rink objects), the type step and the fan-out.
Proceed(rinks, loc, flt) ==
    IF Len(rinks) = 0
    THEN /\ pc' = "done"
         /\ outcome' = Returned(<< >>, << >>)
         /\ filteredRinks' = << >>
         /\ sched' = NoSlots
    ELSE /\ pc' = "awaitSchedules"
         /\ outcome' = NoOutcome
         /\ filteredRinks' = FilteredRinks(rinks, loc, flt)
         /\ sched' = LaunchFetches(FilteredRinks(rinks, loc, flt))

\* App.loadSessions calls API.fetchAllSessions(userLocation, filters); with
\* the cache set fetchRinks returns it, otherwise the catalog query is sent.
CallFetchAllSessions ==
    /\ pc = "idle"
    /\ \E loc \in Locations, st \in SettingsSet :
        /\ userLocation' = loc
        /\ filters' = getFilters(st, today)
        /\ IF rinksCache.set
           THEN /\ catalog' = "hit"
                /\ Proceed(rinksCache.rinks, loc, getFilters(st, today))
                /\ rinksCache' = Cached(RinksAfterDistanceStep(rinksCache.rinks, loc,
                                                              getFilters(st, today)))
           ELSE /\ catalog' = "none"
                /\ pc' = "awaitCatalog"
                /\ UNCHANGED << rinksCache, filteredRinks, sched, outcome >>
    /\ UNCHANGED << today, uiVars, rinksVars, filterVars,
                    parseVars, decodeVars, sortVars >>

\* the catalog endpoint answers the query of fetchRinks
CatalogRespond ==
    /\ pc = "awaitCatalog"
    /\ \E resp \in CatalogResponses :
        /\ catalog' = IF CatalogOk(resp) THEN "ok" ELSE "failed"
        /\ Proceed(fetchRinksValue(resp), userLocation, filters)
        /\ rinksCache' = IF CatalogOk(resp)
                         THEN Cached(RinksAfterDistanceStep(MapFeatures(resp),
                                                            userLocation, filters))
                         ELSE rinksCache
    /\ UNCHANGED << today, uiVars, userLocation, filters, rinksVars, filterVars,
                    parseVars, decodeVars, sortVars >>

\* a schedule endpoint answers before the timeout: fetchSchedule resolves
ScheduleRespond ==
    /\ pc = "awaitSchedules"
    /\ \E i \in 1..Len(filteredRinks), resp \in ScheduleResponses :
        /\ sched[filteredRinks[i].id].st = "pending"
        /\ sched' = [sched EXCEPT ![filteredRinks[i].id] =
                        IF fetchScheduleSettles(resp).st = "resolved"
                        THEN FulfilledFetch(MakeEntries(filteredRinks[i],
                                                        fetchScheduleSettles(resp).value))
                        ELSE RejectedFetch]
    /\ UNCHANGED << today, uiVars, rinksCache, pc, userLocation, filters, catalog,
                    filteredRinks, outcome, rinksVars, filterVars,
                    parseVars, decodeVars, sortVars >>

\* the 30 s timer of a fetch fires first: its race rejects
ScheduleTimeout ==
    /\ pc = "awaitSchedules"
    /\ \E r \in RinkIds :
        /\ sched[r].st = "pending"
        /\ sched' = [sched EXCEPT ![r] = RejectedFetch]
    /\ UNCHANGED << today, uiVars, rinksCache, pc, userLocation, filters, catalog,
                    filteredRinks, outcome, rinksVars, filterVars,
                    parseVars, decodeVars, sortVars >>

\* allSettled resolves: flatten, filter, sort, return
Finish ==
    /\ pc = "awaitSchedules"
    /\ AllSettled(sched)
    /\ outcome' \in TailOutcomes(Flatten(filteredRinks, sched), filteredRinks,
                                 filters, today)
    /\ pc' = "done"
    /\ UNCHANGED << today, uiVars, rinksCache, userLocation, filters, catalog,
                    filteredRinks, sched, rinksVars, filterVars,
                    parseVars, decodeVars, sortVars >>

\* the caller has the result; the next call may start
Return ==
    /\ pc = "done"
    /\ pc' = "idle"
    /\ userLocation' = << >>
    /\ filters' = getFilters(DefaultSettings, 1)
    /\ catalog' = "none"
    /\ filteredRinks' = << >>
    /\ sched' = NoSlots
    /\ outcome' = NoOutcome
    /\ UNCHANGED << today, uiVars, rinksCache, rinksVars, filterVars,
                    parseVars, decodeVars, sortVars >>

Next ==
    \/ CallFetchAllSessions
    \/ CatalogRespond
    \/ ScheduleRespond
    \/ ScheduleTimeout
    \/ Finish
    \/ Return

Spec == Init /\ [][Next]_vars

(***************************************************************************)
(* SpecRinks: direct calls of API.fetchRinks that may overlap               *)
(* (src/js/views.js 759-789).  Nothing in API serialises its callers.      *)
(***************************************************************************)
\* fetchRinks is called: the cache is returned, or the catalog query is sent
\* and the call waits for the answer
RinksCall(c) ==
    /\ rpc[c] = "idle"
    /\ rlate' = [rlate EXCEPT ![c] = (firstRinks # << >>)]
    /\ IF rinksCache.set
       THEN /\ rpc' = [rpc EXCEPT ![c] = "returned"]
            /\ rret' = [rret EXCEPT ![c] = rinksCache.rinks]
       ELSE /\ rpc' = [rpc EXCEPT ![c] = "awaiting"]
            /\ rret' = rret
    /\ UNCHANGED << today, uiVars, rinksCache, firstRinks, rwrites, aggVars, filterVars,
                    parseVars, decodeVars, sortVars >>

\* the catalog endpoint answers the query of call c
RinksRespond(c) ==
    /\ rpc[c] = "awaiting"
    /\ \E resp \in CatalogResponses :
        /\ rinksCache' = IF CatalogOk(resp) THEN Cached(MapFeatures(resp)) ELSE rinksCache
        /\ rret' = [rret EXCEPT ![c] = fetchRinksValue(resp)]
        /\ firstRinks' = IF CatalogOk(resp) /\ firstRinks = << >>
                         THEN << MapFeatures(resp) >> ELSE firstRinks
        /\ rwrites' = IF CatalogOk(resp) THEN rwrites + 1 ELSE rwrites
    /\ rpc' = [rpc EXCEPT ![c] = "returned"]
    /\ UNCHANGED << today, uiVars, rlate, aggVars, filterVars,
                    parseVars, decodeVars, sortVars >>

\* the caller has the list; it may call again
RinksReturn(c) ==
    /\ rpc[c] = "returned"
    /\ rpc' = [rpc EXCEPT ![c] = "idle"]
    /\ rret' = [rret EXCEPT ![c] = << >>]
    /\ rlate' = [rlate EXCEPT ![c] = FALSE]
    /\ UNCHANGED << today, uiVars, rinksCache, firstRinks, rwrites, aggVars, filterVars,
                    parseVars, decodeVars, sortVars >>

NextRinks ==
    \E c \in Callers :
        \/ RinksCall(c)
        \/ RinksRespond(c)
        \/ RinksReturn(c)

SpecRinks == Init /\ [][NextRinks]_vars

(***************************************************************************)
(* SpecFilter: API.applyTimeFilters applied to a list of entries           *)
(* (src/js/views.js 948-972).                                              *)
(***************************************************************************)
T_midnight == StrTime(<<"1", "2", ":", "0", "0", " ", "A", "M">>)
T_1159am == StrTime(<<"1", "1", ":", "5", "9", " ", "A", "M">>)
T_noon == StrTime(<<"1", "2", ":", "0", "0", " ", "P", "M">>)
T_459pm == StrTime(<<"4", ":", "5", "9", " ", "P", "M">>)
T_5pm == StrTime(<<"5", ":", "0", "0", " ", "P", "M">>)
T_1130pm == StrTime(<<"1", "1", ":", "3", "0", " ", " ", "p", "m">>)
T_24h == StrTime(<<"2", "4", ":", "0", "0">>)
T_garbage == StrTime(<<"n", "o", "o", "n">>)

FilterTimes ==
    {T_midnight, T_1159am, T_noon, T_459pm, T_5pm, T_1130pm, T_24h, T_garbage,
     UndefTime, OtherTime}

FilterEntries ==
    {[rink |-> MapFeature(Feature(1)),
      session |-> [activity |-> LeisureSkate, date |-> d, time |-> t]] :
        d \in {<< >>, <<1>>, <<MaxDay>>}, t \in FilterTimes}

RECURSIVE SeqsUpTo(_, _)
SeqsUpTo(S, n) ==
    IF n = 0 THEN {<< >>}
    ELSE LET shorter == SeqsUpTo(S, n - 1)
         IN  shorter \cup {Append(q, x) : q \in shorter, x \in S}

FilterArguments ==
    {[getFilters(DefaultSettings, 1) EXCEPT !.timeOfDay = tod, !.timeFilter = tf] :
        tod \in {"", "all", "morning", "afternoon", "evening"},
        tf \in {"upcoming", "all", "past"}}

InitFilter ==
    /\ today \in Days
    /\ rinksCache = NullCache
    /\ AggInit
    /\ RinksInit
    /\ UiIdle
    /\ fin \in SeqsUpTo(FilterEntries, MaxLen)
    /\ ffilters \in FilterArguments
    /\ fout = << >>
    /\ fpc = "ready"
    /\ fin0 = fin
    /\ fout2 = << >>
    /\ ParseIdle
    /\ DecodeIdle
    /\ SortIdle

\* applyTimeFilters returns the kept entries
ApplyTimeFilters ==
    /\ fpc = "ready"
    /\ ~applyTimeFiltersThrows(fin, ffilters)
    /\ fout' = applyTimeFilters(fin, ffilters, today)
    /\ fpc' = "done"
    /\ UNCHANGED << today, uiVars, rinksCache, aggVars, rinksVars, fin, ffilters, fin0, fout2,
                    parseVars, decodeVars, sortVars >>

\* applyTimeFilters is called once more with the same array and filters
ApplyTimeFiltersAgain ==
    /\ fpc = "done"
    /\ fout2' = applyTimeFilters(fin, ffilters, today)
    /\ fpc' = "again"
    /\ UNCHANGED << today, uiVars, rinksCache, aggVars, rinksVars, fin, ffilters, fin0, fout,
                    parseVars, decodeVars, sortVars >>

\* parseTime throws inside the filter callback
ApplyTimeFiltersThrow ==
    /\ fpc = "ready"
    /\ applyTimeFiltersThrows(fin, ffilters)
    /\ fpc' = "threw"
    /\ UNCHANGED << today, uiVars, rinksCache, aggVars, rinksVars, fin, ffilters, fout,
                    fin0, fout2, parseVars, decodeVars, sortVars >>

NextFilter ==
    \/ ApplyTimeFilters
    \/ ApplyTimeFiltersThrow

SpecFilter == InitFilter /\ [][NextFilter]_vars

(***************************************************************************)
(* SpecParse: API.parseTime applied to one argument                        *)
(* (src/js/views.js 977-991).                                              *)
(***************************************************************************)
DigitChar(n) == Digits[n + 1]

Blanks(n) == [i \in 1..n |-> " "]

MeridiemChars(mer) ==
    IF mer = "AM" THEN <<"A", "M">>
    ELSE IF mer = "PM" THEN <<"P", "M">>
    ELSE IF mer = "am" THEN <<"a", "m">>
    ELSE IF mer = "pm" THEN <<"p", "m">>
    ELSE << >>

\* the characters of the time p describes, e.g. "07:30 pm"
FormatTime(p) ==
    (IF p.h >= 10 THEN << DigitChar(p.h \div 10), DigitChar(p.h % 10) >>
     ELSE IF p.pad THEN << "0", DigitChar(p.h) >>
     ELSE << DigitChar(p.h) >>)
    \o << ":" >> \o p.mm \o Blanks(p.gap) \o MeridiemChars(p.mer)

\* the characters of the hour p describes when it is written without
\* minutes, e.g. "3 PM"
FormatHour(p) ==
    (IF p.h >= 10 THEN << DigitChar(p.h \div 10), DigitChar(p.h % 10) >>
     ELSE << DigitChar(p.h) >>)
    \o Blanks(p.gap) \o MeridiemChars(p.mer)

\* texts the pattern of parseTime does not match
UnmatchedTexts ==
    { << >>,
      <<"n", "o", "o", "n">>,
      <<"1", "2", " ", "P", "M">>,
      <<"7", "p", "m">>,
      <<"9", ":", "5", " ", "P", "M">>,
      <<":", "3", "0">>,
      <<"P", "M">> }

ParseInputs ==
    {[MissingTime EXCEPT !.kind = "time", !.h = h, !.pad = pad, !.mm = mm,
                         !.gap = gap, !.mer = mer] :
        h \in 0..MaxHour, pad \in BOOLEAN, mm \in {<<"0", "0">>, <<"5", "9">>},
        gap \in 0..MaxGap, mer \in {"", "AM", "PM", "am", "pm"}}
    \cup {[MissingTime EXCEPT !.kind = "hour", !.h = h, !.gap = gap, !.mer = mer] :
            h \in 0..MaxHour, gap \in 0..MaxGap, mer \in {"AM", "PM", "am", "pm"}}
    \cup {[MissingTime EXCEPT !.kind = "text", !.text = t] : t \in UnmatchedTexts}
    \cup {MissingTime, [MissingTime EXCEPT !.kind = "number"]}

\* the value of session.time that p describes
TimeValue(p) ==
    IF p.kind = "time" THEN StrTime(FormatTime(p))
    ELSE IF p.kind = "hour" THEN StrTime(FormatHour(p))
    ELSE IF p.kind = "text" THEN StrTime(p.text)
    ELSE IF p.kind = "number" THEN OtherTime
    ELSE UndefTime

InitParse ==
    /\ today \in Days
    /\ rinksCache = NullCache
    /\ AggInit
    /\ RinksInit
    /\ UiIdle
    /\ FilterIdle
    /\ DecodeIdle
    /\ SortIdle
    /\ pin \in ParseInputs
    /\ pout = 0
    /\ ppc = "ready"

\* parseTime returns the hour
ParseTime ==
    /\ ppc = "ready"
    /\ ~ParseTimeThrows(TimeValue(pin))
    /\ pout' = parseTime(TimeValue(pin))
    /\ ppc' = "done"
    /\ UNCHANGED << today, uiVars, rinksCache, aggVars, rinksVars, filterVars, decodeVars,
                    sortVars, pin >>

\* timeStr.match is not a function
ParseTimeThrow ==
    /\ ppc = "ready"
    /\ ParseTimeThrows(TimeValue(pin))
    /\ ppc' = "threw"
    /\ UNCHANGED << today, uiVars, rinksCache, aggVars, rinksVars, filterVars, decodeVars,
                    sortVars, pin, pout >>

NextParse ==
    \/ ParseTime
    \/ ParseTimeThrow

SpecParse == InitParse /\ [][NextParse]_vars

(***************************************************************************)
(* SpecDecode: API.fetchSchedule applied to one answer of the schedule     *)
(* endpoint  (src/js/views.js 795-855).                                    *)
(***************************************************************************)
AdultLeisureSkate ==
    <<"A", "d", "u", "l", "t", " ", "l", "E", "I", "S", "U", "R", "E", " ",
      "s", "k", "a", "t", "e", ":", " ", "1", "8", "+">>
LeisureSkating2 == <<"L", "e", "i", "s", "u", "r", "e", " ", " ", "S", "k", "a", "t", "e">>
IceLeisure == <<"I", "c", "e", " ", "L", "e", "i", "s", "u", "r", "e">>

\* activity labels of a row; << >> is a row without a label
DecodeLabels ==
    {LeisureSkate, LeisureIce, AdultLeisureSkate, ShinnyHockey, LeisureSkating2,
     IceLeisure, << >>}

DecodeRows == {Row(c, <<1>>, T_9am) : c \in DecodeLabels}

DecodeBodies ==
    {<< Item(rows) >> : rows \in SeqsUpTo(DecodeRows, MaxLen)}
    \cup {<< ItemNoR, Item(<< r >>), Item(<< r >>) >> : r \in DecodeRows}
    \cup {<< Item(<< r >>), ItemNull >> : r \in DecodeRows}

DecodeResponses ==
    {[kind |-> k, items |-> << >>] : k \in {"neterr", "notok", "badtext", "notarray"}}
    \cup {[kind |-> "array", items |-> b] : b \in DecodeBodies}

InitDecode ==
    /\ today \in Days
    /\ rinksCache = NullCache
    /\ AggInit
    /\ RinksInit
    /\ UiIdle
    /\ FilterIdle
    /\ ParseIdle
    /\ SortIdle
    /\ dresp \in DecodeResponses
    /\ dout = [st |-> "none", value |-> << >>]
    /\ dpc = "ready"

\* the endpoint has answered (or the request failed) and fetchSchedule settles
FetchSchedule ==
    /\ dpc = "ready"
    /\ dout' = fetchScheduleSettles(dresp)
    /\ dpc' = "done"
    /\ UNCHANGED << today, uiVars, rinksCache, aggVars, rinksVars, filterVars, parseVars,
                    sortVars, dresp >>

NextDecode == FetchSchedule

SpecDecode == InitDecode /\ [][NextDecode]_vars

(***************************************************************************)
(* SpecSort: Views.sortSessions (src/js/views.js 347-371) and              *)
(* API.applyTimeFilters (948-972), each called twice on the same array     *)
(* with the same arguments.                                                *)
(***************************************************************************)
SortRinkName(r) == IF r = 1 THEN <<"b">> ELSE <<"a">>

\* entries as fetchAllSessions returns them for well-formed payloads: two
\* rinks, without a distance or 0 km or 4 km away, on two dates
SortEntries ==
    {[rink |-> [id |-> r, name |-> SortRinkName(r), type |-> RinkType(r),
                lat |-> RinkLat(r), distance |-> d],
      session |-> [activity |-> LeisureSkate, date |-> dt[1], time |-> dt[2]]] :
        r \in {1, 2}, d \in {<< >>, <<0>>, <<4>>},
        dt \in {<< <<1>>, T_130pm >>, << <<MaxDay>>, T_9am >>}}

SortArguments == {"name", "distance", "time"}

RepeatFilterArguments ==
    {[getFilters(DefaultSettings, 1) EXCEPT !.timeOfDay = "morning", !.timeFilter = "all"],
     [getFilters(DefaultSettings, 1) EXCEPT !.timeOfDay = "all", !.timeFilter = "upcoming"]}

\* either sortSessions or applyTimeFilters is about to be called
InitSort ==
    /\ today = MaxDay
    /\ rinksCache = NullCache
    /\ AggInit
    /\ RinksInit
    /\ UiIdle
    /\ ParseIdle
    /\ DecodeIdle
    /\ \/ /\ sin \in SeqsUpTo(SortEntries, MaxSortLen)
          /\ sin0 = sin
          /\ sortBy \in SortArguments
          /\ sout = << >>
          /\ sout2 = << >>
          /\ spc = "ready"
          /\ FilterIdle
       \/ /\ fin \in SeqsUpTo(SortEntries, MaxSortLen)
          /\ fin0 = fin
          /\ ffilters \in RepeatFilterArguments
          /\ fout = << >>
          /\ fout2 = << >>
          /\ fpc = "ready"
          /\ SortIdle

\* Views.sortSessions(sessions, sortBy) returns the sorted copy
SortSessions ==
    /\ spc = "ready"
    /\ sout' = sortSessions(sin, sortBy)
    /\ sin' = ArrayAfterSort(sin, sortBy)
    /\ spc' = "done"
    /\ UNCHANGED << today, uiVars, rinksCache, aggVars, rinksVars, filterVars, parseVars,
                    decodeVars, sin0, sortBy, sout2 >>

\* it is called once more with the same array and sortBy
SortSessionsAgain ==
    /\ spc = "done"
    /\ sout2' = sortSessions(sin, sortBy)
    /\ sin' = ArrayAfterSort(sin, sortBy)
    /\ spc' = "again"
    /\ UNCHANGED << today, uiVars, rinksCache, aggVars, rinksVars, filterVars, parseVars,
                    decodeVars, sin0, sortBy, sout >>

NextSort ==
    \/ SortSessions
    \/ SortSessionsAgain
    \/ ApplyTimeFilters
    \/ ApplyTimeFiltersAgain

SpecSort == InitSort /\ [][NextSort]_vars

(***************************************************************************)
(* SpecApp: the page with App, LocationManager and FilterSettings          *)
(* (src/js/app.js 244-405, 598-986; src/js/views.js 560-578, 648-667).     *)
(* Handlers run to completion; a fetchAllSessions call started by          *)
(* loadSessions settles in a later turn of the event loop.                 *)
(***************************************************************************)
\* loadSessions without its first line: a fault the claims about the
\* loading flag must detect
LoadSkipped_Never(isLoading) == FALSE

\* if (this.isLoading) return
LoadSkipped(isLoading) == isLoading

\* LocationManager.getLocation() and FilterSettings.getFilters()
LoadArgs(loc, sett, day) == [loc |-> loc, filters |-> getFilters(sett, day)]

\* loadSessions up to its await, after the handler has assigned the
\* location and the settings
loadSessions ==
    IF LoadSkipped(App.isLoading) THEN UNCHANGED << App, dom, inflight >>
    ELSE /\ App' = [App EXCEPT !.isLoading = TRUE]
         /\ dom' = [dom EXCEPT !.loadingIndicator = "flex"]
         /\ inflight' = Append(inflight, LoadArgs(lmUserLocation', settings', today))

\* if (window.App) window.App.loadSessions()
triggerUpdate ==
    IF window.App THEN loadSessions ELSE UNCHANGED << App, dom, inflight >>

\* ids of the rinks of RinkSelector.allRinks
AllIds(rinks) == [i \in 1..Len(rinks) |-> rinks[i].id]

\* FilterSettings.save: the item and the query string
save ==
    /\ localStorage' = [localStorage EXCEPT
                            !.skateFinderFilters = StoredSettings(settings')]
    /\ url' = updateURL(settings', window.RinkSelector,
                        RinkSelector.selectedRinkIds, AllIds(RinkSelector.allRinks))

\* a handler of bindUI: assign the setting, save, triggerUpdate
FilterHandler(new) ==
    /\ page = "ready"
    /\ events < MaxEvents
    /\ events' = events + 1
    /\ settings' = new
    /\ UNCHANGED lmUserLocation
    /\ save
    /\ triggerUpdate
    /\ reloaded' = << >>
    /\ UNCHANGED << today, rinksCache, aggVars, rinksVars, filterVars, parseVars,
                    decodeVars, sortVars, window, page, loaded, RinkSelector,
                    savedSelection >>

SliderValues == {5, 10}
DateButtons == {"any", "pick"}
PickerDates == {<<2>>}
TimeOfDayButtons == {"all", "morning"}
RinkTypeButtons == {"Indoor"}
TimeFilterButtons == {"past"}
Addresses == {<<0>>}

DistanceSliderInput ==
    \E value \in SliderValues :
        FilterHandler([settings EXCEPT !.maxDistance = value])

AnyDistanceChange ==
    \E checked \in BOOLEAN :
        FilterHandler([settings EXCEPT !.anyDistance = checked])

DateFilterClick ==
    \E value \in DateButtons :
        FilterHandler([settings EXCEPT
            !.dateFilter = value,
            !.selectedDate = IF value = "pick"
                             THEN (IF settings.selectedDate = << >> THEN << today >>
                                   ELSE settings.selectedDate)
                             ELSE << >>])

DatePickerChange ==
    \E value \in PickerDates :
        FilterHandler([settings EXCEPT !.selectedDate = value])

TimeOfDayClick ==
    \E value \in TimeOfDayButtons :
        FilterHandler([settings EXCEPT !.timeOfDay = value])

RinkTypeClick ==
    \E value \in RinkTypeButtons :
        FilterHandler([settings EXCEPT !.rinkType = value])

TimeFilterClick ==
    \E value \in TimeFilterButtons :
        FilterHandler([settings EXCEPT !.timeFilter = value])

\* LocationManager.selectAddress
SelectAddress ==
    /\ page = "ready"
    /\ events < MaxEvents
    /\ events' = events + 1
    /\ \E loc \in Addresses : lmUserLocation' = loc
    /\ UNCHANGED settings
    /\ triggerUpdate
    /\ UNCHANGED << today, rinksCache, aggVars, rinksVars, filterVars, parseVars,
                    decodeVars, sortVars, window, page, loaded, localStorage, url,
                    RinkSelector, reloaded, savedSelection >>

\* new Set(ids), in insertion order
RECURSIVE Dedupe(_, _)
Dedupe(ids, acc) ==
    IF ids = << >> THEN acc
    ELSE Dedupe(Tail(ids),
                IF \E i \in 1..Len(acc) : acc[i] = Head(ids) THEN acc
                ELSE Append(acc, Head(ids)))

\* params.get('rinks').split(',').map(parseInt).filter(id => !isNaN(id))
RECURSIVE ParsedIds(_)
ParsedIds(pieces) ==
    IF pieces = << >> THEN << >>
    ELSE parseInt(Head(pieces)) \o ParsedIds(Tail(pieces))

\* RinkSelector.loadSelections
loadSelections(selector, u, item) ==
    LET rinkIds == IF u.rinks # << >> THEN ParsedIds(u.rinks[1]) ELSE << >>
    IN  IF Len(rinkIds) > 0
        THEN [selector EXCEPT !.selectedRinkIds = Dedupe(rinkIds, << >>),
                              !.urlHasRinks = TRUE]
        ELSE IF item.kind = "json"
        THEN [selector EXCEPT !.selectedRinkIds = Dedupe(item.ids, << >>)]
        ELSE IF item.kind = "garbage"
        THEN [selector EXCEPT !.selectedRinkIds = << >>]
        ELSE selector

\* App.init after LocationManager.init: FilterSettings.init, then
\* loadSessions; RinkSelector.init where the page has a rink selector
PageInit ==
    /\ page = "unloaded"
    /\ page' = "ready"
    /\ settings' = InitSettings(url, localStorage.skateFinderFilters)
    /\ RinkSelector' = IF window.RinkSelector
                       THEN loadSelections(RinkSelector, url,
                                           localStorage.skateFinderSelectedRinks)
                       ELSE RinkSelector
    /\ UNCHANGED lmUserLocation
    /\ triggerUpdate
    /\ UNCHANGED << today, rinksCache, aggVars, rinksVars, filterVars, parseVars,
                    decodeVars, sortVars, window, events, loaded, localStorage, url,
                    reloaded, savedSelection >>

\* what a fetchAllSessions call may resolve with: no session, or one
LoadResults ==
    {[sessions |-> << >>, rinks |-> << >>], [sessions |-> <<1>>, rinks |-> <<1>>]}

RemoveAt(q, i) == SubSeq(q, 1, i - 1) \o SubSeq(q, i + 1, Len(q))

\* App.updateEmptyState: style.display of #emptyState
updateEmptyState(sessions, isLoading) ==
    IF Len(sessions) = 0 /\ ~isLoading THEN "block" ELSE "none"

\* the await of loadSessions resumes with a value: the rest of try, then
\* finally
LoadReturns ==
    /\ \E i \in 1..Len(inflight), result \in LoadResults :
        /\ inflight' = RemoveAt(inflight, i)
        /\ loaded' = [last |-> "ok", args |-> << inflight[i] >>]
        /\ App' = [isLoading |-> FALSE, sessions |-> result.sessions,
                   rinks |-> result.rinks]
        /\ dom' = [emptyState |-> updateEmptyState(result.sessions, App.isLoading),
                   loadingIndicator |-> "none"]
    /\ UNCHANGED << today, rinksCache, aggVars, rinksVars, filterVars, parseVars,
                    decodeVars, sortVars, window, page, events, lmUserLocation,
                    storeVars >>

\* the await of loadSessions throws: catch, then finally
LoadThrows ==
    /\ \E i \in 1..Len(inflight) :
        /\ inflight' = RemoveAt(inflight, i)
        /\ loaded' = [loaded EXCEPT !.last = "threw"]
    /\ App' = [App EXCEPT !.isLoading = FALSE]
    /\ dom' = [dom EXCEPT !.loadingIndicator = "none"]
    /\ UNCHANGED << today, rinksCache, aggVars, rinksVars, filterVars, parseVars,
                    decodeVars, sortVars, window, page, events, lmUserLocation,
                    storeVars >>

\* #emptyState as the document has it is not in the sources: either value
InitApp ==
    /\ today = 1
    /\ rinksCache = NullCache
    /\ AggInit
    /\ RinksInit
    /\ FilterIdle
    /\ ParseIdle
    /\ DecodeIdle
    /\ SortIdle
    /\ window = [App |-> TRUE, RinkSelector |-> FALSE]
    /\ page = "unloaded"
    /\ events = 0
    /\ settings = DefaultSettings
    /\ localStorage = NoStorage
    /\ url = EmptyURL
    /\ App = AppConstructed
    /\ dom \in [emptyState : {"none", "block"}, loadingIndicator : {"none"}]
    /\ lmUserLocation = << >>
    /\ inflight = << >>
    /\ loaded = NoLoad
    /\ RinkSelector = SelectorConstructed
    /\ reloaded = << >>
    /\ savedSelection = << >>

NextApp ==
    \/ PageInit
    \/ DistanceSliderInput
    \/ AnyDistanceChange
    \/ DateFilterClick
    \/ DatePickerChange
    \/ TimeOfDayClick
    \/ RinkTypeClick
    \/ TimeFilterClick
    \/ SelectAddress
    \/ LoadReturns
    \/ LoadThrows

SpecApp == InitApp /\ [][NextApp]_vars

(***************************************************************************)
(* SpecStore: the page with FilterSettings and RinkSelector, the query     *)
(* string and localStorage, over page reloads                              *)
(* (src/js/app.js 598-916; src/unnamed/part_000).  window.App is absent:   *)
(* both triggerUpdate functions test for it.  The search box of the rink   *)
(* selector is left empty, so getFilteredRinks is allRinks.                *)
(***************************************************************************)
\* the rinks the API hands to setRinks: the names sort against the ids
SelectorRinks ==
    [r \in RinkIds |-> [id |-> r, name |-> << LowerCase[NumRinks + 1 - r] >>]]

\* a.name.localeCompare(b.name) <= 0, for names of one lower-case letter
NameBefore(a, b) ==
    LET rank(ch) == CHOOSE i \in 1..Len(LowerCase) : LowerCase[i] = ch
    IN  rank(a.name[1]) <= rank(b.name[1])

RECURSIVE InsertByName(_, _)
InsertByName(sorted, x) ==
    IF sorted = << >> THEN << x >>
    ELSE LET last == sorted[Len(sorted)]
         IN  IF NameBefore(last, x) THEN Append(sorted, x)
             ELSE Append(InsertByName(SubSeq(sorted, 1, Len(sorted) - 1), x), last)

\* rinks.sort((a, b) => a.name.localeCompare(b.name))
RECURSIVE SortByName(_, _)
SortByName(sorted, rest) ==
    IF rest = << >> THEN sorted
    ELSE SortByName(InsertByName(sorted, Head(rest)), Tail(rest))

Has(ids, id) == \E i \in 1..Len(ids) : ids[i] = id

\* the Set after add(id) for each id of more, in order
RECURSIVE AddAll(_, _)
AddAll(ids, more) ==
    IF more = << >> THEN ids
    ELSE AddAll(IF Has(ids, Head(more)) THEN ids ELSE Append(ids, Head(more)),
                Tail(more))

\* the Set after delete(id) for each id of gone
DeleteAll(ids, gone) == SelectSeq(ids, LAMBDA id : ~Has(gone, id))

\* this.selectedRinkIds.size === 0
SelectsAllByDefault(selector) == Len(selector.selectedRinkIds) = 0

\* RinkSelector.setRinks: the selector after the call
setRinks(selector, rinks) ==
    LET all == SortByName(<< >>, rinks)
    IN  IF selector.urlHasRinks
        THEN [selector EXCEPT
                 !.allRinks = all,
                 !.selectedRinkIds =
                     SelectSeq(selector.selectedRinkIds,
                               LAMBDA id : Has(AllIds(all), id))]
        ELSE IF SelectsAllByDefault(selector)
        THEN [selector EXCEPT !.allRinks = all,
                              !.selectedRinkIds = AddAll(<< >>, AllIds(all))]
        ELSE [selector EXCEPT !.allRinks = all]

\* RinkSelector.saveSelections: the item and, through
\* FilterSettings.updateURL, the query string
saveSelections ==
    /\ localStorage' = [localStorage EXCEPT
                            !.skateFinderSelectedRinks =
                                [kind |-> "json",
                                 ids |-> RinkSelector'.selectedRinkIds]]
    /\ url' = updateURL(settings, window.RinkSelector,
                        RinkSelector'.selectedRinkIds,
                        AllIds(RinkSelector'.allRinks))

\* RinkSelector.setRinks, called when the API has loaded the rinks
SetRinks ==
    /\ page = "ready"
    /\ window.RinkSelector
    /\ RinkSelector' = setRinks(RinkSelector, SelectorRinks)
    /\ IF RinkSelector.urlHasRinks \/ SelectsAllByDefault(RinkSelector)
       THEN saveSelections
       ELSE UNCHANGED << localStorage, url >>
    /\ UNCHANGED << today, rinksCache, aggVars, rinksVars, filterVars, parseVars,
                    decodeVars, sortVars, window, page, events, appVars, settings,
                    reloaded, savedSelection >>

\* a handler of the rink selector: change the Set, saveSelections, render,
\* triggerUpdate (nothing without window.App)
SelectionHandler(ids) ==
    /\ page = "ready"
    /\ window.RinkSelector
    /\ events < MaxEvents
    /\ events' = events + 1
    /\ RinkSelector' = [RinkSelector EXCEPT !.selectedRinkIds = ids]
    /\ saveSelections
    /\ savedSelection' = << ids >>
    /\ reloaded' = << >>
    /\ UNCHANGED << today, rinksCache, aggVars, rinksVars, filterVars, parseVars,
                    decodeVars, sortVars, window, page, appVars, settings >>

\* RinkSelector.selectAll
SelectAll ==
    SelectionHandler(AddAll(RinkSelector.selectedRinkIds,
                            AllIds(RinkSelector.allRinks)))

\* RinkSelector.selectNone
SelectNone ==
    SelectionHandler(DeleteAll(RinkSelector.selectedRinkIds,
                               AllIds(RinkSelector.allRinks)))

\* RinkSelector.toggleRink, from the checkbox of a listed rink
ToggleRink ==
    \E i \in 1..Len(RinkSelector.allRinks) :
        LET rinkId == RinkSelector.allRinks[i].id
        IN  SelectionHandler(
                IF Has(RinkSelector.selectedRinkIds, rinkId)
                THEN DeleteAll(RinkSelector.selectedRinkIds, << rinkId >>)
                ELSE Append(RinkSelector.selectedRinkIds, rinkId))

\* the user reloads the page: the scripts start over, the query string and
\* localStorage stay
Reload ==
    /\ page = "ready"
    /\ page' = "unloaded"
    /\ reloaded' = << [settings |-> settings,
                       selected |-> RinkSelector.selectedRinkIds,
                       changes |-> events] >>
    /\ settings' = DefaultSettings
    /\ RinkSelector' = SelectorConstructed
    /\ App' = AppConstructed
    /\ dom' = [emptyState |-> "none", loadingIndicator |-> "none"]
    /\ lmUserLocation' = << >>
    /\ inflight' = << >>
    /\ loaded' = NoLoad
    /\ UNCHANGED << today, rinksCache, aggVars, rinksVars, filterVars, parseVars,
                    decodeVars, sortVars, window, events, localStorage, url, savedSelection >>

\* a stored object with no field
EmptyObject ==
    [kind |-> "json", maxDistance |-> << >>, anyDistance |-> << >>,
     dateFilter |-> << >>, selectedDate |-> << >>, timeOfDay |-> << >>,
     rinkType |-> << >>, timeFilter |-> << >>]

SavedIds(ids) == [kind |-> "json", ids |-> ids]

\* the query string and the two items the page may be opened with
StartPages ==
    { [url |-> EmptyURL, filters |-> NoItem, rinks |-> NoItem],
      [url |-> [EmptyURL EXCEPT !.dist = << <<"5">> >>],
       filters |-> NoItem, rinks |-> NoItem],
      [url |-> [EmptyURL EXCEPT !.dist = << <<"7", "5">> >>, !.time = << "night" >>],
       filters |-> NoItem, rinks |-> NoItem],
      [url |-> [EmptyURL EXCEPT !.rinks = << << <<"1">> >> >>],
       filters |-> NoItem, rinks |-> SavedIds(<<2>>)],
      [url |-> [EmptyURL EXCEPT !.rinks = << << <<"x">> >> >>],
       filters |-> [EmptyObject EXCEPT !.timeOfDay = << "evening" >>],
       rinks |-> SavedIds(<<2>>)],
      [url |-> EmptyURL,
       filters |-> [EmptyObject EXCEPT !.maxDistance = << 75 >>],
       rinks |-> NoItem],
      [url |-> EmptyURL,
       filters |-> [EmptyObject EXCEPT !.timeOfDay = << "night" >>],
       rinks |-> SavedIds(<< >>)],
      [url |-> EmptyURL, filters |-> GarbageItem, rinks |-> GarbageItem],
      [url |-> [EmptyURL EXCEPT !.anyDist = << "0" >>, !.date = << "pick" >>,
                                !.pickDate = << 2 >>, !.type = << "Indoor" >>,
                                !.show = << "past" >>],
       filters |-> StoredSettings(DefaultSettings), rinks |-> NoItem] }

InitStore ==
    /\ today = 1
    /\ rinksCache = NullCache
    /\ AggInit
    /\ RinksInit
    /\ FilterIdle
    /\ ParseIdle
    /\ DecodeIdle
    /\ SortIdle
    /\ window = [App |-> FALSE, RinkSelector |-> TRUE]
    /\ page = "unloaded"
    /\ events = 0
    /\ settings = DefaultSettings
    /\ \E start \in StartPages :
        /\ url = start.url
        /\ localStorage = [skateFinderFilters |-> start.filters,
                           skateFinderSelectedRinks |-> start.rinks]
        /\ savedSelection = IF start.rinks.kind = "json" THEN << start.rinks.ids >> ELSE << >>
    /\ App = AppConstructed
    /\ dom = [emptyState |-> "none", loadingIndicator |-> "none"]
    /\ lmUserLocation = << >>
    /\ inflight = << >>
    /\ loaded = NoLoad
    /\ RinkSelector = SelectorConstructed
    /\ reloaded = << >>

NextStore ==
    \/ PageInit
    \/ DistanceSliderInput
    \/ AnyDistanceChange
    \/ DateFilterClick
    \/ DatePickerChange
    \/ TimeOfDayClick
    \/ RinkTypeClick
    \/ TimeFilterClick
    \/ SetRinks
    \/ SelectAll
    \/ SelectNone
    \/ ToggleRink
    \/ Reload

SpecStore == InitStore /\ [][NextStore]_vars

(***************************************************************************)
(* Properties.                                                             *)
(***************************************************************************)
Count(q, e) == Cardinality({i \in 1..Len(q) : q[i] = e})

Elements(q) == {q[i] : i \in 1..Len(q)}

RinkIdsOf(rinks) == {rinks[i].id : i \in 1..Len(rinks)}

\* the entries of the rinks whose fetch was fulfilled, in catalog order
RECURSIVE FulfilledEntries(_)
FulfilledEntries(n) ==
    IF n = 0 THEN << >>
    ELSE FulfilledEntries(n - 1)
         \o (IF sched[n].st = "fulfilled" THEN sched[n].value ELSE << >>)

\* the call ran its fan-out (the catalog was not empty) and has ended
FanOutDone == pc = "done" /\ catalog \in {"hit", "ok"}

\* C1: partial-failure isolation.  When a call of fetchAllSessions has ended,
\* it has returned (no error reached the caller) and the returned sessions
\* are exactly the filter-passing entries of the rinks whose fetch was
\* fulfilled before its timeout, each as often as it was fetched.
C1_PartialFailureIsolation ==
    FanOutDone =>
        /\ outcome.status = "returned"
        /\ LET passing == SelectSeq(FulfilledEntries(NumRinks),
                                    LAMBDA e : FilterKeeps(e, filters, today))
           IN  /\ Len(outcome.sessions) = Len(passing)
               /\ \A e \in Elements(passing) :
                      Count(outcome.sessions, e) = Count(passing, e)

\* the distance of catalog rink r from the reference location of the call
TrueDistance(r) == calculateDistance(userLocation[1], RinkLat(r))

DistanceFiltered == pc # "idle" /\ userLocation # << >> /\ ~filters.anyDistance

\* rink r has no fetch, and is in neither the filtered nor the returned list
Excluded(r) ==
    /\ sched[r].st = "none"
    /\ r \notin RinkIdsOf(filteredRinks)
    /\ r \notin RinkIdsOf(outcome.rinks)

\* C2 as stated: with a reference location and anyDistance false, a rink
\* farther away than filters.maxDistance gets no schedule fetch and is not in
\* the returned rink list, whatever the configured maximum distance is.
C2_NoFetchBeyondConfiguredMax ==
    DistanceFiltered =>
        \A r \in RinkIds : TrueDistance(r) > filters.maxDistance => Excluded(r)

\* C2 amended: the same for the maximum distance the call works with, which
\* is filters.maxDistance, or 10 km when filters.maxDistance is 0.
C2_NoFetchBeyondEffectiveMax ==
    DistanceFiltered =>
        \A r \in RinkIds :
            TrueDistance(r) > (IF filters.maxDistance = 0 THEN 10 ELSE filters.maxDistance)
                => Excluded(r)

\* a rink of the catalog is excluded by distance while another is fetched
C2_Witness ==
    /\ DistanceFiltered
    /\ pc = "awaitSchedules"
    /\ \E r \in RinkIdsOf(rinksCache.rinks) :
           TrueDistance(r) > filters.maxDistance /\ filters.maxDistance # 0
    /\ \E r \in RinkIds : sched[r].st = "pending"

\* C3: every call of fetchAllSessions that ends has handed its caller a
\* result {sessions, rinks}.
C3_AlwaysReturnsResult ==
    pc = "done" => outcome.status = "returned"

WellFormedEntry(e) == e.session.date # << >> /\ e.session.time.k = "str"

\* C4: a payload with a retained row whose date or time is missing or not a
\* string makes its rink contribute nothing: the call returns, and no
\* returned entry has such a row.
C4_MalformedPayloadIsolated ==
    pc = "done" =>
        /\ outcome.status # "threw"
        /\ \A i \in 1..Len(outcome.sessions) : WellFormedEntry(outcome.sessions[i])

\* C5: a call of fetchRinks that begins after a call has succeeded sends no
\* catalog query and returns the rink list that first success returned.
C5_CachedAfterSuccess ==
    \A c \in Callers :
        rlate[c] =>
            /\ rpc[c] # "awaiting"
            /\ rpc[c] = "returned" =>
                   CatalogFields(rret[c]) = CatalogFields(firstRinks[1])

\* C6: when the catalog fetch fails, fetchAllSessions has returned
\* {sessions: [], rinks: []}, no schedule fetch was issued and the cache is
\* as it was (not set).
C6_CatalogFailureGivesEmptyResult ==
    catalog = "failed" =>
        /\ pc = "done"
        /\ outcome = Returned(<< >>, << >>)
        /\ \A r \in RinkIds : sched[r].st = "none"
        /\ ~rinksCache.set

C6_Witness == catalog = "failed" /\ pc = "done" /\ userLocation # << >>

\* the date a specific-date filter asks for; << >> when none is active
TargetDate ==
    IF filters.dateFilter = "today" THEN <<today>>
    ELSE IF filters.dateFilter = "tomorrow" THEN <<today + 1>>
    ELSE IF filters.dateFilter = "pick" THEN filters.filterDate
    ELSE << >>

\* C7: with a specific-date filter active, entries on any other date than
\* the target date are dropped: every returned entry that has a date is on
\* the target date.
C7_OnlyTargetDateReturned ==
    (pc = "done" /\ outcome.status = "returned" /\ TargetDate # << >>) =>
        \A i \in 1..Len(outcome.sessions) :
            outcome.sessions[i].session.date # << >> =>
                outcome.sessions[i].session.date = TargetDate

\* a date as a sort key; an entry without a date comes after every date, as
\* localeCompare places the string "undefined"
DateKey(e) == IF e.session.date = << >> THEN MaxDay + 1 ELSE e.session.date[1]

\* C8: the returned sessions are in ascending order of (date, parsed hour).
C8_SortedByDateAndHour ==
    (pc = "done" /\ outcome.status = "returned") =>
        \A i \in 1..(Len(outcome.sessions) - 1) :
            LET a == outcome.sessions[i]
                b == outcome.sessions[i + 1]
            IN  \/ DateKey(a) < DateKey(b)
                \/ /\ DateKey(a) = DateKey(b)
                   /\ parseTime(a.session.time) <= parseTime(b.session.time)

\* three entries of two rinks were returned in another order than fetched,
\* two of them on one date
C8_Witness ==
    /\ pc = "done"
    /\ outcome.status = "returned"
    /\ Len(outcome.sessions) >= 3
    /\ outcome.sessions # FulfilledEntries(NumRinks)
    /\ \E i \in 1..(Len(outcome.sessions) - 1) :
           /\ DateKey(outcome.sessions[i]) = DateKey(outcome.sessions[i + 1])
           /\ parseTime(outcome.sessions[i].session.time)
                  < parseTime(outcome.sessions[i + 1].session.time)

\* C9: fetchAllSessions has ended only with every fetch it launched either
\* fulfilled or rejected by its timeout: none is still pending.
C9_EndsAfterAllSettled ==
    pc = "done" => \A r \in RinkIds : sched[r].st # "pending"

\* a call ended with one fetch timed out and another fulfilled with entries
C9_Witness ==
    /\ pc = "done"
    /\ \E r \in RinkIds : sched[r].st = "rejected"
    /\ \E r \in RinkIds : sched[r].st = "fulfilled" /\ sched[r].value # << >>

\* the hours each time of day stands for
InTimeOfDay(hour, timeOfDay) ==
    IF timeOfDay = "morning" THEN 0 <= hour /\ hour < 12
    ELSE IF timeOfDay = "afternoon" THEN 12 <= hour /\ hour < 17
    ELSE IF timeOfDay = "evening" THEN 17 <= hour /\ hour < 24
    ELSE TRUE

\* C10: applyTimeFilters keeps, in order, exactly the entries whose parsed
\* hour is in [0,12) for morning, [12,17) for afternoon, [17,24) for evening,
\* every entry for all, among those the upcoming/past filter keeps.
C10_TimeOfDayBuckets ==
    fpc = "done" =>
        fout = SelectSeq(fin, LAMBDA e :
                   /\ InTimeOfDay(parseTime(e.session.time), ffilters.timeOfDay)
                   /\ TimeFilterKeeps(e, ffilters, today))

\* an afternoon filter kept the entry at 12 and dropped the one at 17
C10_Witness ==
    /\ fpc = "done"
    /\ ffilters.timeOfDay = "afternoon"
    /\ ffilters.timeFilter = "all"
    /\ Len(fin) = 2
    /\ parseTime(fin[1].session.time) = 17
    /\ parseTime(fin[2].session.time) = 12
    /\ fout = << fin[2] >>

\* the date test the filter setting asks for: on or after today for
\* "upcoming", before today for "past", none for "all"
InDateRange(e, timeFilter) ==
    IF timeFilter = "upcoming" THEN e.session.date # << >> /\ e.session.date[1] >= today
    ELSE IF timeFilter = "past" THEN e.session.date # << >> /\ e.session.date[1] < today
    ELSE TRUE

\* C11: with no time-of-day filter, applyTimeFilters keeps exactly the
\* entries whose date is on or after today (upcoming), exactly those whose
\* date is before today (past), and every entry (all); an entry is therefore
\* never kept by both upcoming and past.
C11_UpcomingPastByDate ==
    (fpc = "done" /\ ~TimeOfDayActive(ffilters)) =>
        fout = SelectSeq(fin, LAMBDA e : InDateRange(e, ffilters.timeFilter))

\* the hour the claim gives for hour h written with meridiem mer
ClaimedHour(h, mer) ==
    IF mer \in {"PM", "pm"} /\ h # 12 THEN h + 12
    ELSE IF mer \in {"AM", "am"} /\ h = 12 THEN 0
    ELSE h

\* C12: parseTime of "H:MM" followed by AM or PM is H + 12 for PM with
\* H # 12, 0 for AM with H = 12 and H otherwise; a string the pattern does
\* not match, the empty string and a missing value give 0.
C12_ParseTimeMapping ==
    ppc = "done" =>
        pout = IF pin.kind = "time" THEN ClaimedHour(pin.h, pin.mer) ELSE 0

C12_Witness ==
    /\ ppc = "done"
    /\ pin.kind = "time" /\ pin.h = 12 /\ pin.mer = "am" /\ pin.gap = 1
    /\ pout = 0

\* the labels that, lower-cased, contain "leisure skate" or "leisure ice"
LeisureLabels == {LeisureSkate, LeisureIce, AdultLeisureSkate}

\* the rows of a payload, item by item
RECURSIVE AllRows(_)
AllRows(items) ==
    IF items = << >> THEN << >>
    ELSE (IF Head(items).hasR THEN Head(items).r ELSE << >>) \o AllRows(Tail(items))

WellStructured(resp) ==
    resp.kind = "array" /\ \A i \in 1..Len(resp.items) : ~resp.items[i].nul

\* C13: decoding a well-structured payload gives one session for each row
\* whose lower-cased activity label contains "leisure skate" or "leisure
\* ice", in the order of the rows, and nothing for any other row or for a
\* row without a label.
C13_LeisureRowsRetained ==
    (dpc = "done" /\ WellStructured(dresp)) =>
        LET kept == SelectSeq(AllRows(dresp.items), LAMBDA row : row.c \in LeisureLabels)
        IN  /\ dout.st = "resolved"
            /\ dout.value = [i \in 1..Len(kept) |->
                                [activity |-> kept[i].c, date |-> kept[i].d,
                                 time |-> kept[i].t]]

C13_Witness ==
    /\ dpc = "done"
    /\ dresp.kind = "array"
    /\ dresp.items = << Item(<< Row(ShinnyHockey, <<1>>, T_9am),
                               Row(AdultLeisureSkate, <<1>>, T_9am) >>) >>
    /\ Len(dout.value) = 1

\* C14: fetchSchedule never rejects, and a network error, a non-OK status,
\* a body that does not decode to JSON, or a payload that raises while it is
\* walked, gives the empty list.
C14_FetchScheduleNeverRaises ==
    dpc = "done" =>
        /\ dout.st = "resolved"
        /\ (~WellStructured(dresp) => dout.value = << >>)

C14_Witness ==
    /\ dpc = "done"
    /\ dresp.kind = "array"
    /\ \E i \in 1..Len(dresp.items) : dresp.items[i].nul
    /\ dout.value = << >>

\* C15: a call of fetchAllSessions without a reference location returns no
\* rink and no session entry that carries a distance, whatever calls came
\* before it.
C15_NoDistanceWithoutLocation ==
    (pc = "done" /\ outcome.status = "returned" /\ userLocation = << >>) =>
        /\ \A i \in 1..Len(outcome.rinks) : outcome.rinks[i].distance = << >>
        /\ \A i \in 1..Len(outcome.sessions) : outcome.sessions[i].rink.distance = << >>

\* the rinks of the catalog as the call got them from fetchRinks
CatalogRinkIds == RinkIdsOf(rinksCache.rinks)

PassesType(r) == filters.rinkType = "" \/ RinkType(r) = filters.rinkType

\* the ids of a rink list, in its order
IdsInOrder(rinks) == [i \in 1..Len(rinks) |-> rinks[i].id]

\* C16: with anyDistance true the maximum distance plays no part: the rinks
\* of the call are all the catalog rinks of the requested type, in catalog
\* order, whatever the maximum distance is; with a reference location each
\* of them carries its distance from it; and the result is one the call
\* could have given for any other maximum distance.
C16_AnyDistanceIgnoresMax ==
    (pc \in {"awaitSchedules", "done"} /\ catalog \in {"hit", "ok"}
        /\ Len(rinksCache.rinks) > 0 /\ filters.anyDistance) =>
        /\ IdsInOrder(filteredRinks)
             = SelectSeq(IdsInOrder(rinksCache.rinks), PassesType)
        /\ \A r \in RinkIds : (sched[r].st # "none") = (r \in RinkIdsOf(filteredRinks))
        /\ userLocation # << >> =>
             \A i \in 1..Len(filteredRinks) :
                filteredRinks[i].distance = << TrueDistance(filteredRinks[i].id) >>
        /\ \A m \in {0, 1, 5, 50} :
             /\ filteredRinks = FilteredRinks(rinksCache.rinks, userLocation,
                                              [filters EXCEPT !.maxDistance = m])
             /\ pc = "done" /\ outcome.status = "returned" =>
                  /\ outcome.rinks = filteredRinks
                  /\ outcome \in TailOutcomes(Flatten(filteredRinks, sched), filteredRinks,
                                              [filters EXCEPT !.maxDistance = m], today)

C16_Witness ==
    /\ pc = "done" /\ outcome.status = "returned"
    /\ filters.anyDistance /\ filters.maxDistance = 5
    /\ userLocation # << >>
    /\ \E i \in 1..Len(outcome.rinks) : outcome.rinks[i].distance[1] > 5
    /\ Len(outcome.sessions) > 0

\* the rink is left in by the distance step of the call
PassesDistance(r) ==
    DistanceFiltered => TrueDistance(r) <= EffectiveMaxDistance(filters)

\* C17: with a rink type requested, every rink of the call, every rink a
\* schedule fetch is issued for and every rink of a returned entry has that
\* type; with none requested, every catalog rink the distance step leaves in
\* is among the rinks of the call.
C17_OnlyRequestedRinkType ==
    (pc \in {"awaitSchedules", "done"} /\ catalog \in {"hit", "ok"}) =>
        /\ filters.rinkType # "" =>
            /\ \A i \in 1..Len(filteredRinks) : filteredRinks[i].type = filters.rinkType
            /\ \A r \in RinkIds : sched[r].st # "none" => RinkType(r) = filters.rinkType
            /\ \A i \in 1..Len(outcome.rinks) : outcome.rinks[i].type = filters.rinkType
            /\ \A i \in 1..Len(outcome.sessions) :
                    outcome.sessions[i].rink.type = filters.rinkType
        /\ filters.rinkType = "" =>
            \A r \in CatalogRinkIds : PassesDistance(r) => r \in RinkIdsOf(filteredRinks)

C17_Witness ==
    /\ pc = "done" /\ outcome.status = "returned"
    /\ filters.rinkType = "Outdoor"
    /\ Len(rinksCache.rinks) = NumRinks
    /\ Len(outcome.rinks) > 0
    /\ Len(outcome.sessions) > 0

PassesExclusions(r) == PassesDistance(r) /\ PassesType(r)

\* C18: the returned rink list holds exactly the catalog rinks that the
\* distance step and the type step leave in, in catalog order, whatever the
\* schedule fetches gave and whatever the date and time filters are; and
\* every returned entry belongs to a rink of that list.
C18_ReturnedRinksAreFilteredCatalog ==
    (pc = "done" /\ outcome.status = "returned" /\ catalog \in {"hit", "ok"}) =>
        /\ IdsInOrder(outcome.rinks)
             = SelectSeq(IdsInOrder(rinksCache.rinks), PassesExclusions)
        /\ \A i \in 1..Len(outcome.sessions) :
                outcome.sessions[i].rink.id \in RinkIdsOf(outcome.rinks)

\* a rink is returned although its fetch timed out and another's entries
\* were all filtered away
C18_Witness ==
    /\ pc = "done" /\ outcome.status = "returned"
    /\ Len(outcome.rinks) = NumRinks
    /\ outcome.sessions = << >>
    /\ \E r \in RinkIds : sched[r].st = "rejected"
    /\ \E r \in RinkIds : sched[r].st = "fulfilled" /\ sched[r].value # << >>

HasDistance(e) == e.rink.distance # << >>

\* C19: sorted by distance, the array holds the entries of the input, no
\* entry without a distance stands before one that has a distance, and the
\* entries that have one stand in ascending order of it.
C19_SortByDistance ==
    (spc \in {"done", "again"} /\ sortBy = "distance") =>
        /\ Len(sout) = Len(sin0)
        /\ \A e \in Elements(sin0) : Count(sout, e) = Count(sin0, e)
        /\ \A i, j \in 1..Len(sout) :
            i < j =>
                /\ HasDistance(sout[j]) => HasDistance(sout[i])
                /\ (HasDistance(sout[i]) /\ HasDistance(sout[j])) =>
                        sout[i].rink.distance[1] <= sout[j].rink.distance[1]

C19_Witness ==
    /\ spc = "done" /\ sortBy = "distance"
    /\ Len(sin0) = 3
    /\ ~HasDistance(sin0[1])
    /\ sin0[2].rink.distance = <<4>>
    /\ sin0[3].rink.distance = <<0>>
    /\ sout = << sin0[3], sin0[2], sin0[1] >>

C21_CacheWrittenAtMostOnce ==
    /\ Cardinality({c \in Callers : rpc[c] = "awaiting"}) <= 1
    /\ rwrites <= 1

\* C22: once rinksCache is set, its rink records are what fetchRinks made of
\* the catalog answer: no call of fetchAllSessions has written a field of
\* any of them.
C22_CacheReadOnly ==
    rinksCache.set =>
        \A i \in 1..Len(rinksCache.rinks) :
            rinksCache.rinks[i] = MapFeature(Feature(rinksCache.rinks[i].id))

\* C23: the hour parseTime returns for a string lies in 0..23.
C23_HourInRange ==
    ppc = "done" => pout \in 0..23

\* C24: an hour written without minutes and followed by AM or PM parses to
\* its 24-hour value: "12 PM" to 12, "12 AM" to 0, "3 PM" to 15.
C24_MinutesOptional ==
    (ppc = "done" /\ pin.kind = "hour") => pout = ClaimedHour(pin.h, pin.mer)

\* C25: App.isLoading is true exactly while a fetchAllSessions call started
\* by App.loadSessions is in flight, at most one such call is in flight, and
\* the flag is false again once the call has returned or thrown.
C25_LoadingFlag ==
    /\ Len(inflight) <= 1
    /\ App.isLoading <=> (Len(inflight) = 1)

\* a load threw and the flag was reset; the next load is in flight, and a
\* handler that ran during it found the flag set
C25_Witness_SecondLoadInFlight ==
    /\ App.isLoading
    /\ Len(inflight) = 1
    /\ loaded.last = "threw"
    /\ inflight[1] # LoadArgs(lmUserLocation, settings, today)

\* C26: once no load is in flight, App.sessions and App.rinks are the result
\* of a call made with the current settings and the current location, also
\* when a setting or the location changed while a load was in flight.
C26_NoChangeLost ==
    (page = "ready" /\ inflight = << >> /\ loaded.last = "ok")
        => loaded.args = << LoadArgs(lmUserLocation, settings, today) >>

\* C27: after a load that returned, #emptyState is displayed when the loaded
\* list is empty and hidden when it is not.
C27_EmptyStateShown ==
    (inflight = << >> /\ loaded.last = "ok")
        => (dom.emptyState = "block" <=> Len(App.sessions) = 0)

\* every setting is a value of its control
InDomain(sett) ==
    /\ sett.maxDistance \in 1..50
    /\ sett.dateFilter \in {"any", "today", "tomorrow", "pick"}
    /\ sett.timeOfDay \in {"all", "morning", "afternoon", "evening"}
    /\ sett.rinkType \in {"", "Indoor", "Outdoor"}
    /\ sett.timeFilter \in {"upcoming", "all", "past"}

\* C28: after FilterSettings.init, whatever the query string and localStorage
\* hold, maxDistance is an integer of 1..50 and dateFilter, timeOfDay,
\* rinkType and timeFilter are values of their lists.
C28_SettingsInDomain == page = "ready" => InDomain(settings)

\* C29: the settings survive a reload: after filter changes (each saved) and
\* rink-selection changes (each followed by updateURL), FilterSettings.init
\* on the reloaded page yields the settings the page had before.
C29_SettingsSurviveReload ==
    (page = "ready" /\ reloaded # << >> /\ reloaded[1].changes > 0)
        => settings = reloaded[1].settings

SameIds(a, b) == {a[i] : i \in 1..Len(a)} = {b[i] : i \in 1..Len(b)}

\* C30: setRinks selects all rinks only when no selection was saved and the
\* query string has no rinks parameter; a selection the user saved, also the
\* empty one that selectNone leaves, is the selection after every later
\* setRinks call and page reload.
C30_SavedSelectionPreserved ==
    (page = "ready" /\ savedSelection # << >> /\ url.rinks = << >>
     /\ ~RinkSelector.urlHasRinks)
        => SameIds(RinkSelector.selectedRinkIds, savedSelection[1])

=============================================================================
